---- MODULE Spec2Model ----
(***************************************************************************)
(* The iterative retrieval-augmented agent loop of                         *)
(* src/insurance_RAG/backend/docs/rishi_rag.py (EnhancedRAGPipeline).      *)
(*                                                                         *)
(* The graph state (EnhancedAgentState, a dict with optional keys) is the  *)
(* function st: its DOMAIN is the set of keys present, a node's returned   *)
(* dict is merged into it, and state.get(k, d) is Get(st, k, d).           *)
(*                                                                         *)
(* Scales: the 0..1 scores (quality, coverage, evidence strength) are      *)
(* integers in tenths (5 is 0.5), the answer confidence is in hundredths   *)
(* (50 is 0.5), complexity_score is in tenths (50 is 5.0), priorities are  *)
(* in tenths.                                                              *)
(*                                                                         *)
(* Keys of the state that are modelled: question, question_complexity,     *)
(* question_type, estimated_hops, max_dynamic_iters, iteration,            *)
(* sub_questions, current_query_batch, sub_question, evidence_docs,        *)
(* last_batch, context_quality_score, coverage_score, evidence_strength,   *)
(* information_gaps, sufficiency_assessment, stop, stop_reasons,           *)
(* final_answer, answer_confidence, grounded_ok.                           *)
(*                                                                         *)
(* Spec is ask(); QaSpec is the /policy_qa/ endpoint around ask();         *)
(* StreamSpec is stream(); AnalyzeSpec and MergeSpec run analyze_question  *)
(* and the evidence merge on their own over wider inputs.                  *)
(***************************************************************************)
EXTENDS Integers, Sequences, FiniteSets, TLC

VARIABLES
    default_max_iters,  \* self.default_max_iters
    min_iters,          \* self.min_iters
    pc,                 \* the node about to run, or "idle", "END", "returned", "raised"
    st,                 \* the graph state of the session
    last_call,          \* the node that ran last, the oracle text it received and
                        \* what its evidence-store calls did
    err,                \* the exception ask() raised, "none" otherwise
    result,             \* what ask() returned: answer and debug
    events,             \* what stream() has yielded so far
    execution,          \* which execution of the graph is running: 0 the one of
                        \* ask(), 1 the app.stream of stream(), 2 its app.invoke
    mi                  \* the local mi of ask() and stream(): the max_iters
                        \* argument, or self.default_max_iters when that is
                        \* None; 0 before any call

vars == <<default_max_iters, min_iters, pc, st, last_call, err, result,
          events, execution, mi>>

(***************************************************************************)
(* Bounds of the model.                                                    *)
(***************************************************************************)
MaxCfgIters == 3
MaxMinIters == 2
MaxListLen == 2

(***************************************************************************)
(* dict helpers                                                            *)
(***************************************************************************)
Get(d, k, default) == IF k \in DOMAIN d THEN d[k] ELSE default

Merge(old, upd) ==
    [k \in (DOMAIN old) \cup (DOMAIN upd) |->
        IF k \in DOMAIN upd THEN upd[k] ELSE old[k]]

Max2(a, b) == IF a >= b THEN a ELSE b
Min2(a, b) == IF a <= b THEN a ELSE b

\* Python round(): num/den to the nearest integer, a half to the even one
\* (num >= 0, den > 0)
RoundHalfEven(num, den) ==
    LET q == num \div den
        r == num % den
    IN IF 2 * r < den THEN q
       ELSE IF 2 * r > den THEN q + 1
       ELSE IF q % 2 = 0 THEN q ELSE q + 1

\* Python int(): truncation toward zero of num/den (den > 0)
IntTrunc(num, den) == IF num >= 0 THEN num \div den ELSE -((-num) \div den)

\* a comparison that is sensitive to case
LowerIdentity(s) == s

\* str.lower() on the verdict words the oracle can send
Lower(s) ==
    CASE s = "STOP" -> "stop"
      [] s = "Stop" -> "stop"
      [] s = "PASS" -> "pass"
      [] OTHER -> s

\* str.strip() on the answer texts the oracle can send
Strip(s) ==
    CASE s = " Answer A. " -> "Answer A."
      [] s = "  " -> ""
      [] OTHER -> s

(***************************************************************************)
(* Passages (langchain Document): metadata source and page, page_content.  *)
(* P1 and P2 share (source, page) and differ in content.                   *)
(***************************************************************************)
P1 == [source |-> "doc.pdf", page |-> 3, content |-> "x"]
P2 == [source |-> "doc.pdf", page |-> 3, content |-> "y"]
P3 == [source |-> "doc.pdf", page |-> 4, content |-> "z"]

\* a key that also tells passages of one page apart by their text
DocKeyWithContent(d) == <<d.source, d.page, d.content>>

DocKey(d) == <<d.source, d.page>>

NoDedupeDocs(docs) == docs

RECURSIVE DedupeFrom(_, _, _)
DedupeFrom(docs, seen, out) ==
    IF docs = << >> THEN out
    ELSE LET d == Head(docs)
             key == DocKey(d)
         IN IF key \notin seen
            THEN DedupeFrom(Tail(docs), seen \cup {key}, Append(out, d))
            ELSE DedupeFrom(Tail(docs), seen, out)

\* _dedupe_docs
DedupeDocs(docs) == DedupeFrom(docs, {}, << >>)

(***************************************************************************)
(* Oracle texts.  A text is a record: kind "object" is a JSON object,      *)
(* "wrapped" a JSON object inside prose, "prose" text with no JSON in it,  *)
(* "scalar" a bare JSON number, "array" a bare JSON array of numbers,      *)
(* "text" free text (the synthesizer's answer).  kind "unreachable" is the *)
(* call raising a transport error instead of returning.                    *)
(***************************************************************************)
Obj(o) == [kind |-> "object", obj |-> o]
Wrapped(o) == [kind |-> "wrapped", obj |-> o]
Prose == [kind |-> "prose"]
Scalar == [kind |-> "scalar"]
Array == [kind |-> "array"]
Unreachable == [kind |-> "unreachable"]
NoCall == [kind |-> "no_call"]

\* a parsed JSON value: a dict, or something that is not a dict
Dict(o) == [isdict |-> TRUE, d |-> o]
NotDict == [isdict |-> FALSE]

\* the parse that answers {} when json.loads fails, whatever the default
SafeJsonParseEmptyOnFailure(text, default) ==
    CASE text.kind = "object" -> Dict(text.obj)
      [] text.kind = "wrapped" -> Dict(text.obj)
      [] text.kind = "prose" -> Dict(<< >>)
      [] OTHER -> NotDict

\* _safe_json_parse: the text between the first "{" and the last "}" when
\* there is one, else the whole text; the default when json.loads fails
SafeJsonParse(text, default) ==
    CASE text.kind = "object" -> Dict(text.obj)
      [] text.kind = "wrapped" -> Dict(text.obj)
      [] text.kind = "prose" -> Dict(default)
      [] OTHER -> NotDict

\* what a node hands back: the dict to merge, or the exception it raised
Ok(upd) == [ok |-> TRUE, upd |-> upd]
Raise(exc) == [ok |-> FALSE, exc |-> exc]

EmptyDict == << >>

Question == "q0"

(***************************************************************************)
(* analyze_question                                                        *)
(***************************************************************************)
AnalysisDefault ==
    [complexity_score |-> 50, question_type |-> "analytical", estimated_hops |-> 4]

\* a budget capped by the call's mi instead of the pipeline's maximum
MaxDynamicOfCall(complexity, estimated_hops) ==
    Min2(mi, Max2(2, IntTrunc(8 * complexity + 50 * estimated_hops, 100)))

\* min(self.default_max_iters, max(2, int(complexity*0.8 + estimated_hops*0.5)))
MaxDynamic(complexity, estimated_hops) ==
    Min2(default_max_iters,
         Max2(2, IntTrunc(8 * complexity + 50 * estimated_hops, 100)))

AnalyzeQuestion(state, text) ==
    LET analysis == SafeJsonParse(text, AnalysisDefault) IN
    IF ~analysis.isdict THEN Raise("AttributeError")
    ELSE LET complexity == Get(analysis.d, "complexity_score", 50)
             estimated_hops == Get(analysis.d, "estimated_hops", 4)
         IN Ok([question_complexity |-> complexity,
                question_type |-> Get(analysis.d, "question_type", "analytical"),
                estimated_hops |-> estimated_hops,
                max_dynamic_iters |-> MaxDynamic(complexity, estimated_hops),
                iteration |-> 0,
                evidence_docs |-> << >>,
                context_quality_score |-> 0,
                coverage_score |-> 0,
                evidence_strength |-> 0,
                information_gaps |-> << >>])

(***************************************************************************)
(* enhanced_plan                                                           *)
(***************************************************************************)
\* a fallback plan that proposes nothing
PlanDefaultEmpty(question) == [sub_questions |-> << >>]

PlanDefault(question) ==
    [sub_questions |->
        << [query |-> question, priority |-> 10, strategy |-> "semantic"] >>]

Priority(sq) == Get(sq, "priority", 5)

\* a sort that is not stable: x goes before the elements of its own priority
RECURSIVE InsertBeforeEquals(_, _)
InsertBeforeEquals(sorted, x) ==
    IF sorted = << >> THEN << x >>
    ELSE IF Priority(Head(sorted)) > Priority(x)
         THEN << Head(sorted) >> \o InsertBeforeEquals(Tail(sorted), x)
         ELSE << x >> \o sorted

\* where list.sort(reverse=True) puts x among the already sorted: after every
\* element whose priority is not lower (the sort is stable)
RECURSIVE InsertByPriority(_, _)
InsertByPriority(sorted, x) ==
    IF sorted = << >> THEN << x >>
    ELSE IF Priority(Head(sorted)) >= Priority(x)
         THEN << Head(sorted) >> \o InsertByPriority(Tail(sorted), x)
         ELSE << x >> \o sorted

RECURSIVE SortByPriority(_)
SortByPriority(sqs) ==
    IF sqs = << >> THEN << >>
    ELSE InsertByPriority(SortByPriority(SubSeq(sqs, 1, Len(sqs) - 1)), sqs[Len(sqs)])

BatchSize == 3

\* a batch that takes every proposed sub-question
TopNAll(sqs) == sqs

TopN(sqs) == SubSeq(sqs, 1, Min2(BatchSize, Len(sqs)))

EnhancedPlan(state, text) ==
    LET planning_result == SafeJsonParse(text, PlanDefault(state.question)) IN
    IF ~planning_result.isdict THEN Raise("AttributeError")
    ELSE LET sub_questions == SortByPriority(Get(planning_result.d, "sub_questions", << >>))
             top == TopN(sub_questions)
         IN IF \E i \in 1..Len(top) : "query" \notin DOMAIN top[i]
            THEN Raise("KeyError")
            ELSE LET current_batch == [i \in 1..Len(top) |-> top[i].query] IN
                 Ok([sub_questions |-> sub_questions,
                     current_query_batch |-> current_batch,
                     sub_question |-> IF current_batch # << >>
                                      THEN current_batch[1] ELSE state.question])
(***************************************************************************)
(* parallel_retrieve                                                       *)
(***************************************************************************)
\* what one call of a retriever does: returns passages, or raises; a mode
\* the strategy does not call is "unused"
Docs(l) == [kind |-> "docs", docs |-> l]
StoreRaises == [kind |-> "raise"]
Unused == [kind |-> "unused"]

\* a retriever that knows "hybrid" by name and takes every other tag for
\* "semantic"
TryRetrieveNamedHybrid(strategy, sem, sim) ==
    CASE strategy = "similarity" -> sim
      [] strategy = "hybrid" ->
            IF sem.kind = "raise" THEN sem
            ELSE IF sim.kind = "raise" THEN sim
            ELSE Docs(DedupeDocs(sem.docs \o sim.docs))
      [] OTHER -> sem

\* the try block of retrieve_with_strategy: the passages it returns, or the
\* exception of the first retriever call that raises
TryRetrieve(strategy, sem, sim) ==
    CASE strategy = "semantic" -> sem
      [] strategy = "similarity" -> sim
      [] OTHER ->
            IF sem.kind = "raise" THEN sem
            ELSE IF sim.kind = "raise" THEN sim
            ELSE Docs(DedupeDocs(sem.docs \o sim.docs))

RetrieveWithStrategyNoExcept(strategy, sem, sim) == TryRetrieve(strategy, sem, sim)

\* retrieve_with_strategy: except Exception: return []
RetrieveWithStrategy(strategy, sem, sim) ==
    LET r == TryRetrieve(strategy, sem, sim) IN
    IF r.kind = "raise" THEN Docs(<< >>) ELSE r

\* the retrievers a strategy calls, given what each call does: hybrid calls
\* the similarity retriever only when the semantic call returned
CallsSemantic(strategy) == strategy # "similarity"
CallsSimilarity(strategy, sem) ==
    \/ strategy = "similarity"
    \/ strategy \notin {"semantic", "similarity"} /\ sem.kind = "docs"

\* the strategy of the first sub-question with this query, else "semantic"
RECURSIVE StrategyIn(_, _)
StrategyIn(sqs, query) ==
    IF sqs = << >> THEN "semantic"
    ELSE IF "query" \in DOMAIN Head(sqs) /\ Head(sqs).query = query
         THEN Get(Head(sqs), "strategy", "semantic")
         ELSE StrategyIn(Tail(sqs), query)

\* a lookup that ignores the planner's strategies
StrategyForDefaultOnly(state, query) == "semantic"

StrategyFor(state, query) == StrategyIn(Get(state, "sub_questions", << >>), query)

\* a batch that falls back to the question when the planner proposed nothing
QueriesOrQuestion(state) ==
    IF Get(state, "current_query_batch", << >>) = << >>
    THEN << Get(state, "sub_question", state.question) >>
    ELSE state.current_query_batch

Queries(state) ==
    Get(state, "current_query_batch",
        << Get(state, "sub_question", state.question) >>)

RECURSIVE Concat(_)
Concat(lists) ==
    IF lists = << >> THEN << >> ELSE Head(lists) \o Concat(Tail(lists))

MergeEvidenceNewFirst(existing_evidence, fused_docs) ==
    DedupeDocs(fused_docs \o existing_evidence)

\* updated_evidence = _dedupe_docs(existing_evidence + fused_docs)
MergeEvidence(existing_evidence, fused_docs) ==
    DedupeDocs(existing_evidence \o fused_docs)

\* the dict the node returns, calls[i] being what the store did for query i;
\* an exception that leaves retrieve_with_strategy leaves the node
ParallelRetrieve(state, calls) ==
    LET queries == Queries(state)
        docs == [i \in 1..Len(queries) |->
                    RetrieveWithStrategy(StrategyFor(state, queries[i]),
                                         calls[i].sem, calls[i].sim)]
    IN IF \E i \in 1..Len(queries) : docs[i].kind = "raise"
       THEN Raise("TransportError")
       ELSE LET all_docs == Concat([i \in 1..Len(queries) |-> docs[i].docs])
                fused_docs == DedupeDocs(all_docs)
                existing_evidence == Get(state, "evidence_docs", << >>)
            IN Ok([last_batch |-> fused_docs,
                   evidence_docs |-> MergeEvidence(existing_evidence, fused_docs)])

(***************************************************************************)
(* advanced_assess                                                         *)
(***************************************************************************)
AssessDefault ==
    [quality_score |-> 5, coverage_score |-> 5, evidence_strength |-> 5,
     information_gaps |-> << "Assessment failed" >>,
     sufficiency_assessment |-> "partial"]

\* an assessor without the short-circuit
AssessAlwaysCallsOracle(state) == TRUE

AssessCallsOracle(state) == Get(state, "evidence_docs", << >>) # << >>

AdvancedAssess(state, text) ==
    IF ~AssessCallsOracle(state)
    THEN Ok([context_quality_score |-> 0,
             coverage_score |-> 0,
             evidence_strength |-> 0,
             information_gaps |-> << "No relevant documents found" >>,
             sufficiency_assessment |-> "insufficient"])
    ELSE LET assessment == SafeJsonParse(text, AssessDefault) IN
         IF ~assessment.isdict THEN Raise("AttributeError")
         ELSE Ok([context_quality_score |-> Get(assessment.d, "quality_score", 5),
                  coverage_score |-> Get(assessment.d, "coverage_score", 5),
                  evidence_strength |-> Get(assessment.d, "evidence_strength", 5),
                  information_gaps |-> Get(assessment.d, "information_gaps", << >>),
                  sufficiency_assessment |->
                      Get(assessment.d, "sufficiency_assessment", "partial")])

(***************************************************************************)
(* intelligent_decide                                                      *)
(***************************************************************************)
DecisionDefault ==
    [decision |-> "continue", confidence |-> 5, stop_reasons |-> << >>]

MaxReason == "Reached maximum iterations"

\* the verdict without the budget backstop
ShouldStopNoCeiling(decision, iteration, max_iters) ==
    IF iteration + 1 < min_iters THEN FALSE ELSE Lower(decision) = "stop"

\* the verdict without the minimum iterations check
ShouldStopNoFloor(decision, iteration, max_iters) ==
    IF iteration + 1 >= max_iters THEN TRUE ELSE Lower(decision) = "stop"

\* the verdict: the oracle's decision, then the budget backstop, then the floor
ShouldStop(decision, iteration, max_iters) ==
    LET oracle_stop == Lower(decision) = "stop"
        after_max == IF iteration + 1 >= max_iters THEN TRUE ELSE oracle_stop
    IN IF iteration + 1 < min_iters THEN FALSE ELSE after_max

\* the oracle's reasons alone
StopReasonsOfOracle(decision_result, budget_spent) ==
    Get(decision_result, "stop_reasons", << >>)

\* decision_result["stop_reasons"], with the backstop's reason appended to
\* it when the budget is spent
StopReasons(decision_result, budget_spent) ==
    IF budget_spent
    THEN Append(decision_result.stop_reasons, MaxReason)
    ELSE Get(decision_result, "stop_reasons", << >>)

\* a counter that counts a cycle twice
NextIterationSkips(iteration) == iteration + 2

\* "iteration": iteration + 1
NextIteration(iteration) == iteration + 1

\* a controller that also extends the budget by a cycle, up to the
\* configured maximum, each time it runs
IntelligentDecideRebudget(state, text) ==
    LET iteration == Get(state, "iteration", 0)
        max_iters == Get(state, "max_dynamic_iters", default_max_iters)
        parsed == SafeJsonParse(text, DecisionDefault)
    IN IF ~parsed.isdict THEN Raise("AttributeError")
       ELSE LET decision_result == parsed.d
                budget_spent == iteration + 1 >= max_iters
            IN IF budget_spent /\ "stop_reasons" \notin DOMAIN decision_result
               THEN Raise("KeyError")
               ELSE Ok([stop |-> ShouldStop(Get(decision_result, "decision", "continue"),
                                            iteration, max_iters),
                        iteration |-> iteration + 1,
                        max_dynamic_iters |-> Min2(default_max_iters, max_iters + 1),
                        stop_reasons |->
                            IF budget_spent
                            THEN Append(decision_result.stop_reasons, MaxReason)
                            ELSE Get(decision_result, "stop_reasons", << >>)])

IntelligentDecide(state, text) ==
    LET iteration == Get(state, "iteration", 0)
        max_iters == Get(state, "max_dynamic_iters", default_max_iters)
        parsed == SafeJsonParse(text, DecisionDefault)
    IN IF ~parsed.isdict THEN Raise("AttributeError")
       ELSE LET decision_result == parsed.d
                budget_spent == iteration + 1 >= max_iters
            IN IF budget_spent /\ "stop_reasons" \notin DOMAIN decision_result
               THEN Raise("KeyError")
               ELSE IF max_iters = 0 THEN Raise("ZeroDivisionError")
               ELSE Ok([stop |-> ShouldStop(Get(decision_result, "decision", "continue"),
                                            iteration, max_iters),
                        iteration |-> NextIteration(iteration),
                        stop_reasons |-> StopReasons(decision_result, budget_spent)])

\* a router that reads the stop flag the wrong way round
RouteInverted(state) ==
    IF Get(state, "stop", FALSE) THEN "enhanced_plan" ELSE "enhanced_synthesis"

\* the conditional edge out of intelligent_decide
Route(state) ==
    IF Get(state, "stop", FALSE) THEN "enhanced_synthesis" ELSE "enhanced_plan"

(***************************************************************************)
(* enhanced_synthesis                                                      *)
(***************************************************************************)
NoEvidenceAnswer ==
    "I couldn't find any relevant evidence in the knowledge base for this query."

SynthesisAlwaysCallsOracle(state) == TRUE

SynthesisCallsOracle(state) == Get(state, "evidence_docs", << >>) # << >>

ConfidenceWeightsSwapped(quality_score, coverage_score, evidence_strength) ==
    2 * quality_score + 4 * coverage_score + 4 * evidence_strength

\* quality*0.4 + coverage*0.4 + evidence_strength*0.2, in hundredths
Confidence(quality_score, coverage_score, evidence_strength) ==
    4 * quality_score + 4 * coverage_score + 2 * evidence_strength

\* a synthesizer that consumes the evidence it answered from
EnhancedSynthesisConsumes(state, text) ==
    IF ~SynthesisCallsOracle(state)
    THEN Ok([final_answer |-> NoEvidenceAnswer, answer_confidence |-> 0])
    ELSE Ok([final_answer |-> Strip(text.text),
             answer_confidence |->
                 Confidence(Get(state, "context_quality_score", 5),
                            Get(state, "coverage_score", 5),
                            Get(state, "evidence_strength", 5)),
             evidence_docs |-> << >>])

EnhancedSynthesis(state, text) ==
    IF ~SynthesisCallsOracle(state)
    THEN Ok([final_answer |-> NoEvidenceAnswer, answer_confidence |-> 0])
    ELSE Ok([final_answer |-> Strip(text.text),
             answer_confidence |->
                 Confidence(Get(state, "context_quality_score", 5),
                            Get(state, "coverage_score", 5),
                            Get(state, "evidence_strength", 5))])

(***************************************************************************)
(* advanced_verify                                                         *)
(***************************************************************************)
VerifyDefault == [overall_grounding |-> "fail"]

\* a verifier that checks the evidence only, not the answer
VerifyCallsOracleOnEvidence(state) == Get(state, "evidence_docs", << >>) # << >>

VerifyCallsOracle(state) ==
    /\ Get(state, "evidence_docs", << >>) # << >>
    /\ Get(state, "final_answer", "") # ""

AdvancedVerify(state, text) ==
    IF ~VerifyCallsOracle(state) THEN Ok([grounded_ok |-> FALSE])
    ELSE LET verification == SafeJsonParse(text, VerifyDefault) IN
         IF ~verification.isdict THEN Raise("AttributeError")
         ELSE Ok([grounded_ok |->
                    Lower(Get(verification.d, "overall_grounding", "fail")) = "pass"])

(***************************************************************************)
(* ask: what it returns from the final state                               *)
(***************************************************************************)
\* an edge that sends an ungrounded answer back to the planner
AfterVerifyRetry(state) ==
    IF state.grounded_ok THEN "END" ELSE "enhanced_plan"

\* graph.add_edge("advanced_verify", END)
AfterVerify(state) == "END"

\* a debug dict that also carries the accumulated passages
AskResultWithPassages(final_state) ==
    [answer |-> Get(final_state, "final_answer", ""),
     iterations |-> Get(final_state, "iteration", 0),
     evidence_count |-> Len(Get(final_state, "evidence_docs", << >>)),
     evidence_docs |-> Get(final_state, "evidence_docs", << >>),
     grounded_ok |-> Get(final_state, "grounded_ok", "None"),
     answer_confidence |-> Get(final_state, "answer_confidence", 0),
     stop_reasons |-> Get(final_state, "stop_reasons", << >>),
     last_sub_question |-> Get(final_state, "sub_question", "")]

AskResult(final_state) ==
    [answer |-> Get(final_state, "final_answer", ""),
     iterations |-> Get(final_state, "iteration", 0),
     evidence_count |-> Len(Get(final_state, "evidence_docs", << >>)),
     grounded_ok |-> Get(final_state, "grounded_ok", "None"),
     answer_confidence |-> Get(final_state, "answer_confidence", 0),
     stop_reasons |-> Get(final_state, "stop_reasons", << >>),
     last_sub_question |-> Get(final_state, "sub_question", "")]

(***************************************************************************)
(* The nodes with every key they return.  The operators above leave out    *)
(* the keys that nothing checked under Spec reads (hints, the quality      *)
(* history, the compatibility copies); the operators below add them.       *)
(* parallel_results, which no node and no caller reads, stays out.         *)
(***************************************************************************)
\* a window that keeps the oldest entries: seq[:n]
FirstN(seq, n) == SubSeq(seq, 1, Min2(n, Len(seq)))

\* seq[-n:]
LastN(seq, n) == SubSeq(seq, Max2(1, Len(seq) - n + 1), Len(seq))

HintsKept == 50
ImprovementsKept == 3
HintsToPlanner == 10
GapsToPlanner == 5
GapsInTrace == 3

\* f"{src} p.{page}: {title}"
HintOf(d) == [source |-> d.source, page |-> d.page, title |-> d.content]

\* a hint list that is never cut
UpdatedHintsUnbounded(existing_hints, fused_docs) ==
    existing_hints \o [i \in 1..Len(fused_docs) |-> HintOf(fused_docs[i])]

UpdatedHints(existing_hints, fused_docs) ==
    LastN(existing_hints \o [i \in 1..Len(fused_docs) |-> HintOf(fused_docs[i])],
          HintsKept)

\* an analyzer that leaves the hints, the gaps and the quality history alone
AnalyzeQuestionNoReset(state, text) ==
    LET r == AnalyzeQuestion(state, text)
        analysis == SafeJsonParse(text, AnalysisDefault)
    IN IF ~r.ok THEN r
       ELSE Ok(Merge(r.upd,
                [required_evidence_types |->
                    Get(analysis.d, "required_evidence_types", << "documents" >>),
                 key_aspects |-> Get(analysis.d, "key_aspects", << "general" >>),
                 detected_contradictions |-> << >>,
                 key_findings |-> << >>]))

AnalyzeQuestionFull(state, text) ==
    LET r == AnalyzeQuestion(state, text)
        analysis == SafeJsonParse(text, AnalysisDefault)
    IN IF ~r.ok THEN r
       ELSE Ok(Merge(r.upd,
                [required_evidence_types |->
                    Get(analysis.d, "required_evidence_types", << "documents" >>),
                 key_aspects |-> Get(analysis.d, "key_aspects", << "general" >>),
                 evidence_hints |-> << >>,
                 gaps |-> << >>,
                 recent_quality_improvements |-> << >>,
                 detected_contradictions |-> << >>,
                 key_findings |-> << >>]))

ParallelRetrieveFull(state, calls) ==
    LET r == ParallelRetrieve(state, calls) IN
    IF ~r.ok THEN r
    ELSE Ok(Merge(r.upd,
            [fused_results |-> r.upd.last_batch,
             evidence_hints |->
                UpdatedHints(Get(state, "evidence_hints", << >>), r.upd.last_batch)]))

AdvancedAssessFull(state, text) ==
    LET r == AdvancedAssess(state, text)
        assessment == SafeJsonParse(text, AssessDefault)
    IN IF ~r.ok THEN r
       ELSE IF ~AssessCallsOracle(state)
       THEN Ok(Merge(r.upd,
                [detected_contradictions |-> << >>,
                 key_findings |-> << >>,
                 gaps |-> r.upd.information_gaps]))
       ELSE Ok(Merge(r.upd,
                [detected_contradictions |-> Get(assessment.d, "contradictions", << >>),
                 key_findings |-> Get(assessment.d, "key_findings", << >>),
                 gaps |-> r.upd.information_gaps,
                 recent_quality_improvements |->
                    LastN(Append(Get(state, "recent_quality_improvements", << >>),
                                 r.upd.context_quality_score
                                    - Get(state, "context_quality_score", 0)),
                          ImprovementsKept)]))

IntelligentDecideFull(state, text) ==
    LET r == IntelligentDecide(state, text)
        decision_result == SafeJsonParse(text, DecisionDefault)
    IN IF ~r.ok THEN r
       ELSE Ok(Merge(r.upd,
                [decision_factors |->
                    [quality_score |-> Get(state, "context_quality_score", 0),
                     coverage_score |-> Get(state, "coverage_score", 0),
                     iteration_ratio |->
                        << r.upd.iteration,
                           Get(state, "max_dynamic_iters", default_max_iters) >>,
                     complexity_factor |-> Get(state, "question_complexity", 50)],
                 continue_probability |-> Get(decision_result.d, "confidence", 5)]))

\* the debug dict of ask() with every key
AskDebug(final_state) ==
    Merge(AskResult(final_state),
          [question_complexity |-> Get(final_state, "question_complexity", 0),
           context_quality_score |-> Get(final_state, "context_quality_score", 0),
           coverage_score |-> Get(final_state, "coverage_score", 0),
           last_gaps |-> LastN(Get(final_state, "information_gaps", << >>), GapsInTrace)])

(***************************************************************************)
(* What each node reads of the state: the values it hands to its oracle    *)
(* or computes with.                                                       *)
(***************************************************************************)
NodeInputs(node, state) ==
    CASE node = "analyze_question" -> [question |-> state.question]
      [] node = "enhanced_plan" ->
            [question |-> state.question,
             complexity_score |-> Get(state, "question_complexity", 50),
             question_type |-> Get(state, "question_type", "analytical"),
             estimated_hops |-> Get(state, "estimated_hops", 4),
             required_evidence_types |-> Get(state, "required_evidence_types", << >>),
             context_hints |-> LastN(Get(state, "evidence_hints", << >>), HintsToPlanner),
             gaps |-> LastN(Get(state, "information_gaps", << >>), GapsToPlanner)]
      [] node = "parallel_retrieve" ->
            [queries |-> Queries(state),
             sub_questions |-> Get(state, "sub_questions", << >>),
             evidence_docs |-> Get(state, "evidence_docs", << >>),
             evidence_hints |-> Get(state, "evidence_hints", << >>)]
      [] node = "advanced_assess" ->
            [question |-> state.question,
             evidence_docs |-> Get(state, "evidence_docs", << >>),
             context_quality_score |-> Get(state, "context_quality_score", 0),
             recent_quality_improvements |->
                Get(state, "recent_quality_improvements", << >>)]
      [] node = "intelligent_decide" ->
            [question |-> state.question,
             iteration |-> Get(state, "iteration", 0),
             max_iters |-> Get(state, "max_dynamic_iters", default_max_iters),
             complexity |-> Get(state, "question_complexity", 50),
             quality_score |-> Get(state, "context_quality_score", 0),
             coverage_score |-> Get(state, "coverage_score", 0),
             evidence_strength |-> Get(state, "evidence_strength", 0),
             sufficiency_assessment |->
                Get(state, "sufficiency_assessment", "insufficient"),
             information_gaps |-> Get(state, "information_gaps", << >>),
             recent_improvements |-> Get(state, "recent_quality_improvements", << >>),
             last_batch_size |-> Len(Get(state, "last_batch", << >>))]
      [] node = "enhanced_synthesis" ->
            [question |-> state.question,
             evidence_docs |-> Get(state, "evidence_docs", << >>),
             quality_score |-> Get(state, "context_quality_score", 5),
             coverage_score |-> Get(state, "coverage_score", 5),
             evidence_strength |-> Get(state, "evidence_strength", 5)]
      [] node = "advanced_verify" ->
            [question |-> state.question,
             answer |-> Get(state, "final_answer", ""),
             evidence_docs |-> Get(state, "evidence_docs", << >>)]
      [] node = "END" -> AskDebug(state)
      [] OTHER -> EmptyDict

(***************************************************************************)
(* What the oracle and the evidence store can answer.                      *)
(***************************************************************************)
Text(t) == [kind |-> "text", text |-> t]

AnalysisLow == [complexity_score |-> 20, estimated_hops |-> 2]

AnalysisTexts ==
    {Obj(AnalysisLow), Wrapped(AnalysisLow), Obj(EmptyDict),
     Prose, Scalar, Array, Unreachable}

PlanFour ==
    << [query |-> "q1", priority |-> 5, strategy |-> "semantic"],
       [query |-> "q2", priority |-> 9, strategy |-> "similarity"],
       [query |-> "q3", priority |-> 5, strategy |-> "hybrid"],
       [query |-> "q4", strategy |-> "keyword"] >>

PlanNoQuery == << [priority |-> 9, strategy |-> "semantic"] >>

PlanTexts ==
    {Obj([sub_questions |-> PlanFour]), Obj([sub_questions |-> PlanNoQuery]),
     Obj([sub_questions |-> << >>]), Obj(EmptyDict),
     Prose, Scalar, Unreachable}

StoreOutcomes == {StoreRaises, Docs(<< >>), Docs(<< P1, P3 >>), Docs(<< P2 >>)}

AssessGood ==
    [quality_score |-> 8, coverage_score |-> 6, evidence_strength |-> 4,
     information_gaps |-> << "gap" >>, sufficiency_assessment |-> "sufficient"]

AssessTexts == {Obj(AssessGood), Obj(EmptyDict), Prose, Scalar, Unreachable}

DecideTexts ==
    {Obj([decision |-> "continue", confidence |-> 7, stop_reasons |-> << >>]),
     Obj([decision |-> "stop", confidence |-> 9, stop_reasons |-> << "sufficient" >>]),
     Obj([decision |-> "STOP"]), Obj(EmptyDict),
     Prose, Scalar, Unreachable}

SynthesisTexts == {Text("Answer A."), Text(" Answer A. "), Text("  "), Unreachable}

VerifyTexts ==
    {Obj([overall_grounding |-> "pass"]), Obj([overall_grounding |-> "fail"]),
     Obj(EmptyDict), Prose, Scalar, Unreachable}

\* what the store can do for one query retrieved with this strategy
CallsOf(strategy) ==
    {[sem |-> a, sim |-> b] :
        a \in (IF CallsSemantic(strategy) THEN StoreOutcomes ELSE {Unused}),
        b \in StoreOutcomes \cup {Unused}} \cap
    {c \in [sem : StoreOutcomes \cup {Unused}, sim : StoreOutcomes \cup {Unused}] :
        (c.sim # Unused) <=> CallsSimilarity(strategy, c.sem)}

RECURSIVE BatchCalls(_, _)
BatchCalls(state, queries) ==
    IF queries = << >> THEN {<< >>}
    ELSE {<< c >> \o rest :
            c \in CallsOf(StrategyFor(state, Head(queries))),
            rest \in BatchCalls(state, Tail(queries))}

CallKinds(calls) ==
    [i \in 1..Len(calls) |-> [sem |-> calls[i].sem.kind, sim |-> calls[i].sim.kind]]

(***************************************************************************)
(* The graph: one action per node, wired by the edges of __init__.         *)
(***************************************************************************)
\* Python None
NoneValue == [none |-> TRUE]

\* what stream() yields for one item {node: payload} of app.stream in
\* stream_mode="updates": payload is the dict the node returned
StreamEvent(node, payload) ==
    [node |-> node,
     input |-> Get(payload, "input", NoneValue),
     output |-> Get(payload, "output", NoneValue)]

\* an app.invoke that would yield like app.stream
EmitsEventAlways(exec) == exec >= 1

\* app.stream hands every node's update to the loop of stream(), which yields
\* an event for it; app.invoke hands over the final state only
EmitsEvent(exec) == exec = 1

\* an explicit max_iters argument
IntArg(n) == [int |-> n]

\* mi = max_iters if max_iters is not None else self.default_max_iters
Mi(max_iters) == IF max_iters = NoneValue THEN default_max_iters ELSE max_iters.int

Called(node, text, store) == [node |-> node, oracle |-> text, store |-> store]

\* a node that ran with this oracle text: its dict is merged into the state
\* and the edge is followed, or its exception ends ask()
NodeStep(node, text, store, res, next) ==
    /\ pc = node
    /\ last_call' = Called(node, text, store)
    /\ IF text.kind = "unreachable"
       THEN pc' = "raised" /\ err' = "TransportError" /\ UNCHANGED st
       ELSE IF res.ok
            THEN st' = Merge(st, res.upd) /\ pc' = next /\ UNCHANGED err
            ELSE pc' = "raised" /\ err' = res.exc /\ UNCHANGED st
    /\ events' = IF EmitsEvent(execution) /\ text.kind # "unreachable" /\ res.ok
                 THEN Append(events, StreamEvent(node, res.upd))
                 ELSE events
    /\ UNCHANGED <<mi, default_max_iters, min_iters, result, execution>>

\* the pipeline as constructed: max_iters is a budget of at least one cycle
\* (the application passes max_iters=3, min_iters=1; the defaults are 8 and 2),
\* min_iters is max(0, min_iters); no run has started
Init ==
    /\ default_max_iters \in 1..MaxCfgIters
    /\ min_iters \in 0..MaxMinIters
    /\ pc = "idle"
    /\ st = EmptyDict
    /\ last_call = Called("none", NoCall, << >>)
    /\ err = "none"
    /\ result = EmptyDict
    /\ events = << >>
    /\ execution = 0
    /\ mi = 0

\* ask(question) on a fresh thread
Ask ==
    /\ pc = "idle"
    /\ st' = [question |-> Question]
    /\ pc' = "analyze_question"
    /\ mi' = Mi(NoneValue)
    /\ UNCHANGED <<default_max_iters, min_iters, last_call, err, result, events, execution>>

Analyze ==
    \E text \in AnalysisTexts :
        NodeStep("analyze_question", text, << >>, AnalyzeQuestion(st, text), "enhanced_plan")

Plan ==
    \E text \in PlanTexts :
        NodeStep("enhanced_plan", text, << >>, EnhancedPlan(st, text), "parallel_retrieve")

Retrieve ==
    /\ pc = "parallel_retrieve"
    /\ \E calls \in BatchCalls(st, Queries(st)) :
        NodeStep("parallel_retrieve", NoCall, CallKinds(calls),
                 ParallelRetrieve(st, calls), "advanced_assess")

Assess ==
    \E text \in (IF AssessCallsOracle(st) THEN AssessTexts ELSE {NoCall}) :
        NodeStep("advanced_assess", text, << >>, AdvancedAssess(st, text), "intelligent_decide")

Decide ==
    \E text \in DecideTexts :
        LET res == IntelligentDecide(st, text) IN
        NodeStep("intelligent_decide", text, << >>, res,
                 IF res.ok THEN Route(Merge(st, res.upd)) ELSE "raised")

Synthesize ==
    \E text \in (IF SynthesisCallsOracle(st) THEN SynthesisTexts ELSE {NoCall}) :
        NodeStep("enhanced_synthesis", text, << >>, EnhancedSynthesis(st, text), "advanced_verify")

Verify ==
    \E text \in (IF VerifyCallsOracle(st) THEN VerifyTexts ELSE {NoCall}) :
        LET res == AdvancedVerify(st, text) IN
        NodeStep("advanced_verify", text, << >>, res,
                 IF res.ok THEN AfterVerify(Merge(st, res.upd)) ELSE "raised")

\* ask() returning the answer and the debug dict
Return ==
    /\ pc = "END"
    /\ result' = AskResult(st)
    /\ pc' = "returned"
    /\ UNCHANGED <<mi, default_max_iters, min_iters, st, last_call, err, events, execution>>

Next ==
    \/ Ask
    \/ Analyze
    \/ Plan
    \/ Retrieve
    \/ Assess
    \/ Decide
    \/ Synthesize
    \/ Verify
    \/ Return

Spec == Init /\ [][Next]_vars

(***************************************************************************)
(* The /policy_qa/ endpoint of src/insurance_RAG/backend/app.py around the *)
(* pipeline: it validates the question, calls ask() and answers with a     *)
(* JSON response; result then holds the HTTP response.                     *)
(***************************************************************************)
QaQuestions == {"", "  ", Question}

HTTPException(status_code) == [status |-> status_code]

\* the try block up to the call of ask(): the exception raised, if any
PolicyQaValidate(question) ==
    IF Strip(question) = "" THEN Raise(HTTPException(422)) ELSE Ok(EmptyDict)

\* except Exception as e: whatever the try block raised, an HTTPException
\* included, is answered with status 500
PolicyQaExcept(exc) == HTTPException(500)

\* debug_info as the endpoint sends it: ask()'s debug dict with evidence_docs
\* rebuilt from debug_info.get("evidence_docs", [])
PolicyQaDebug(debug) ==
    LET docs == Get(debug, "evidence_docs", << >>) IN
    Merge(debug, [evidence_docs |->
        [i \in 1..Len(docs) |->
            [metadata |-> DocKey(docs[i]), page_content |-> docs[i].content]]])

\* a request whose question is empty after strip(): ask() is not called
PolicyQaEmpty ==
    /\ pc = "idle"
    /\ \E question \in QaQuestions :
        LET checked == PolicyQaValidate(question) IN
        /\ ~checked.ok
        /\ result' = PolicyQaExcept(checked.exc)
    /\ pc' = "responded"
    /\ UNCHANGED <<mi, default_max_iters, min_iters, st, last_call, err, events, execution>>

\* the response to a request whose question went to ask()
PolicyQaRespond ==
    /\ pc \in {"returned", "raised"}
    /\ PolicyQaValidate(st.question).ok
    /\ result' =
          IF pc = "raised" THEN PolicyQaExcept(err)
          ELSE [status |-> 200,
                answer |-> result.answer,
                debug_info |->
                    PolicyQaDebug([k \in DOMAIN result \ {"answer"} |-> result[k]])]
    /\ pc' = "responded"
    /\ UNCHANGED <<mi, default_max_iters, min_iters, st, last_call, err, events, execution>>

QaNext ==
    \/ PolicyQaEmpty
    \/ Next
    \/ PolicyQaRespond

QaSpec == Init /\ [][QaNext]_vars

(***************************************************************************)
(* stream(): the graph is executed by app.stream, whose per-node updates   *)
(* are yielded as events, and then executed again by app.invoke on the     *)
(* same thread, whose final state is yielded as the "__final__" event.     *)
(* The second execution starts from what the thread's checkpoint holds,    *)
(* updated with the input.  The oracle and the store answer from smaller   *)
(* sets here, the two executions being explored together.                  *)
(***************************************************************************)
StreamAnalysisTexts == {Obj(AnalysisLow), Prose, Unreachable}

StreamPlanTexts == {Prose}

StreamStoreOutcomes == {Docs(<< >>), Docs(<< P1, P3 >>), Docs(<< P2 >>)}

StreamAssessTexts == {Obj(AssessGood), Prose}

StreamDecideTexts ==
    {Obj([decision |-> "continue", confidence |-> 7, stop_reasons |-> << >>]),
     Obj([decision |-> "stop", confidence |-> 9, stop_reasons |-> << "sufficient" >>]),
     Scalar}

StreamSynthesisTexts == {Text("Answer A.")}

StreamVerifyTexts ==
    {Obj([overall_grounding |-> "pass"]), Obj([overall_grounding |-> "fail"])}

FinalEvent(final_state) == [node |-> "__final__", state |-> final_state]

\* stream(question) on a fresh thread: app.stream starts
Stream ==
    /\ pc = "idle"
    /\ st' = [question |-> Question]
    /\ pc' = "analyze_question"
    /\ mi' = Mi(NoneValue)
    /\ execution' = 1
    /\ UNCHANGED <<default_max_iters, min_iters, last_call, err, result, events>>

StreamAnalyze ==
    \E text \in StreamAnalysisTexts :
        NodeStep("analyze_question", text, << >>, AnalyzeQuestion(st, text), "enhanced_plan")

StreamPlan ==
    \E text \in StreamPlanTexts :
        NodeStep("enhanced_plan", text, << >>, EnhancedPlan(st, text), "parallel_retrieve")

StreamRetrieve ==
    /\ pc = "parallel_retrieve"
    /\ \E calls \in BatchCalls(st, Queries(st)) :
        /\ \A i \in 1..Len(calls) :
                {calls[i].sem, calls[i].sim} \subseteq StreamStoreOutcomes \cup {Unused}
        /\ NodeStep("parallel_retrieve", NoCall, CallKinds(calls),
                    ParallelRetrieve(st, calls), "advanced_assess")

StreamAssess ==
    \E text \in (IF AssessCallsOracle(st) THEN StreamAssessTexts ELSE {NoCall}) :
        NodeStep("advanced_assess", text, << >>, AdvancedAssess(st, text), "intelligent_decide")

StreamDecide ==
    \E text \in StreamDecideTexts :
        LET res == IntelligentDecide(st, text) IN
        NodeStep("intelligent_decide", text, << >>, res,
                 IF res.ok THEN Route(Merge(st, res.upd)) ELSE "raised")

StreamSynthesize ==
    \E text \in (IF SynthesisCallsOracle(st) THEN StreamSynthesisTexts ELSE {NoCall}) :
        NodeStep("enhanced_synthesis", text, << >>, EnhancedSynthesis(st, text), "advanced_verify")

StreamVerify ==
    \E text \in (IF VerifyCallsOracle(st) THEN StreamVerifyTexts ELSE {NoCall}) :
        LET res == AdvancedVerify(st, text) IN
        NodeStep("advanced_verify", text, << >>, res,
                 IF res.ok THEN AfterVerify(Merge(st, res.upd)) ELSE "raised")

\* a second step that only reads the saved state of the thread
StreamReadsState ==
    /\ pc = "END"
    /\ execution = 1
    /\ execution' = 2
    /\ UNCHANGED <<mi, default_max_iters, min_iters, pc, st, last_call, err, result, events>>

\* app.stream is exhausted: app.invoke(init) on the same thread
StreamInvoke ==
    /\ pc = "END"
    /\ execution = 1
    /\ st' = Merge(st, [question |-> Question])
    /\ pc' = "analyze_question"
    /\ execution' = 2
    /\ UNCHANGED <<mi, default_max_iters, min_iters, last_call, err, result, events>>

\* app.invoke returned: the final event is yielded and the generator ends
StreamFinal ==
    /\ pc = "END"
    /\ execution = 2
    /\ events' = Append(events, FinalEvent(st))
    /\ pc' = "stream_done"
    /\ UNCHANGED <<mi, default_max_iters, min_iters, st, last_call, err, result, execution>>

StreamNext ==
    \/ Stream
    \/ StreamAnalyze
    \/ StreamPlan
    \/ StreamRetrieve
    \/ StreamAssess
    \/ StreamDecide
    \/ StreamSynthesize
    \/ StreamVerify
    \/ StreamInvoke
    \/ StreamFinal

StreamSpec == Init /\ [][StreamNext]_vars

(***************************************************************************)
(* Two calls of ask() with the same thread_id: the second call's input is  *)
(* applied to what the thread's checkpoint holds after the first, and the  *)
(* graph runs from its entry point.  The nodes write every key they        *)
(* return; the oracle and the store answer from the smaller sets.          *)
(***************************************************************************)
Question2 == "q9"

MaxSessionIters == 2

\* the pipeline with a budget of up to MaxSessionIters cycles and the floor
\* of one cycle the application configures
SessionInit ==
    /\ default_max_iters \in 1..MaxSessionIters
    /\ min_iters = 1
    /\ pc = "idle"
    /\ st = EmptyDict
    /\ last_call = Called("none", NoCall, << >>)
    /\ err = "none"
    /\ result = EmptyDict
    /\ events = << >>
    /\ execution = 0
    /\ mi = 0

SessionAnalyze ==
    \E text \in StreamAnalysisTexts :
        NodeStep("analyze_question", text, << >>, AnalyzeQuestionFull(st, text), "enhanced_plan")

SessionRetrieve ==
    /\ pc = "parallel_retrieve"
    /\ \E calls \in BatchCalls(st, Queries(st)) :
        /\ \A i \in 1..Len(calls) :
                {calls[i].sem, calls[i].sim} \subseteq StreamStoreOutcomes \cup {Unused}
        /\ NodeStep("parallel_retrieve", NoCall, CallKinds(calls),
                    ParallelRetrieveFull(st, calls), "advanced_assess")

SessionAssess ==
    \E text \in (IF AssessCallsOracle(st) THEN StreamAssessTexts ELSE {NoCall}) :
        NodeStep("advanced_assess", text, << >>, AdvancedAssessFull(st, text), "intelligent_decide")

SessionDecide ==
    \E text \in StreamDecideTexts :
        LET res == IntelligentDecideFull(st, text) IN
        NodeStep("intelligent_decide", text, << >>, res,
                 IF res.ok THEN Route(Merge(st, res.upd)) ELSE "raised")

\* ask(another question, thread_id of the call that returned)
AskAgain ==
    /\ pc = "returned"
    /\ st.question = Question
    /\ st' = Merge(st, [question |-> Question2])
    /\ pc' = "analyze_question"
    /\ mi' = Mi(NoneValue)
    /\ UNCHANGED <<default_max_iters, min_iters, last_call, err, result, events, execution>>

SessionNext ==
    \/ Ask
    \/ SessionAnalyze
    \/ StreamPlan
    \/ SessionRetrieve
    \/ SessionAssess
    \/ SessionDecide
    \/ StreamSynthesize
    \/ StreamVerify
    \/ Return
    \/ AskAgain

SessionSpec == SessionInit /\ [][SessionNext]_vars

(***************************************************************************)
(* ask() with a decision oracle that always answers continue, under every  *)
(* budget the constructor accepts from LowestCfgIters up: max_iters is not *)
(* validated, so it can be zero or negative.                               *)
(***************************************************************************)
LowestCfgIters == 0 - 1

ContinueTexts ==
    {Obj([decision |-> "continue", confidence |-> 7, stop_reasons |-> << >>]),
     Obj([decision |-> "proceed", stop_reasons |-> << >>]),
     Prose}

ContinueInit ==
    /\ default_max_iters \in LowestCfgIters..MaxCfgIters
    /\ min_iters \in 0..MaxMinIters
    /\ pc = "idle"
    /\ st = EmptyDict
    /\ last_call = Called("none", NoCall, << >>)
    /\ err = "none"
    /\ result = EmptyDict
    /\ events = << >>
    /\ execution = 0
    /\ mi = 0

ContinueDecide ==
    \E text \in ContinueTexts :
        LET res == IntelligentDecide(st, text) IN
        NodeStep("intelligent_decide", text, << >>, res,
                 IF res.ok THEN Route(Merge(st, res.upd)) ELSE "raised")

ContinueNext ==
    \/ Ask
    \/ StreamAnalyze
    \/ StreamPlan
    \/ StreamRetrieve
    \/ StreamAssess
    \/ ContinueDecide
    \/ StreamSynthesize
    \/ StreamVerify
    \/ Return

ContinueSpec == ContinueInit /\ [][ContinueNext]_vars

(***************************************************************************)
(* _dedupe_docs and the merge of parallel_retrieve on their own: the       *)
(* accumulator and the passage list are drawn from all lists of at most    *)
(* MaxListLen passages, and the list is merged into the accumulator twice. *)
(***************************************************************************)
Passages == {P1, P2, P3}

DocLists == UNION {[1..n -> Passages] : n \in 0..MaxListLen}

MergeInit ==
    /\ default_max_iters = 1
    /\ min_iters = 0
    /\ pc = "merge"
    /\ \E A \in DocLists, L \in DocLists :
            st = [evidence_docs |-> A, last_batch |-> L]
    /\ last_call = Called("none", NoCall, << >>)
    /\ err = "none"
    /\ result = EmptyDict
    /\ events = << >>
    /\ execution = 0
    /\ mi = 0

\* the first merge; result keeps the accumulator it gave
MergeOnce ==
    /\ pc = "merge"
    /\ st' = Merge(st, [evidence_docs |-> MergeEvidence(st.evidence_docs, st.last_batch)])
    /\ result' = [once |-> st'.evidence_docs]
    /\ pc' = "merged"
    /\ UNCHANGED <<mi, default_max_iters, min_iters, last_call, err, events, execution>>

\* the same list merged again
MergeAgain ==
    /\ pc = "merged"
    /\ st' = Merge(st, [evidence_docs |-> MergeEvidence(st.evidence_docs, st.last_batch)])
    /\ pc' = "merged_twice"
    /\ UNCHANGED <<mi, default_max_iters, min_iters, last_call, err, result, events, execution>>

MergeNext ==
    \/ MergeOnce
    \/ MergeAgain

MergeSpec == MergeInit /\ [][MergeNext]_vars

(***************************************************************************)
(* analyze_question on its own: the pipeline is configured with any budget *)
(* up to MaxBudgetCfg and the oracle's analysis carries any complexity     *)
(* score of the prompt's 1-10 scale (in tenths, from 0) and any hop        *)
(* estimate up to MaxHops.                                                 *)
(***************************************************************************)
MaxBudgetCfg == 12
MaxComplexity == 100
MaxHops == 8

AnalyzeInit ==
    /\ default_max_iters \in 1..MaxBudgetCfg
    /\ min_iters = 0
    /\ pc = "analyze_question"
    /\ st = [question |-> Question]
    /\ last_call = Called("none", NoCall, << >>)
    /\ err = "none"
    /\ result = EmptyDict
    /\ events = << >>
    /\ execution = 0
    /\ mi = 0

AnalyzeAny ==
    \E c \in 0..MaxComplexity, h \in 0..MaxHops :
        LET text == Obj([complexity_score |-> c, estimated_hops |-> h]) IN
        NodeStep("analyze_question", text, << >>, AnalyzeQuestion(st, text), "enhanced_plan")

AnalyzeNext == AnalyzeAny

AnalyzeSpec == AnalyzeInit /\ [][AnalyzeNext]_vars

(***************************************************************************)
(* ask() with budgets of up to MaxWindowIters cycles and retrievals that   *)
(* fill the retriever's k: a plan of three semantic sub-questions, each    *)
(* query bringing 6 passages by MMR, so that the rolling windows (hints,   *)
(* quality history) overflow within a run.                                *)
(***************************************************************************)
MaxWindowIters == 4

SemanticK == 6

PlanThreeSemantic ==
    << [query |-> "q1", priority |-> 9, strategy |-> "semantic"],
       [query |-> "q2", priority |-> 5, strategy |-> "semantic"],
       [query |-> "q3", priority |-> 3, strategy |-> "semantic"] >>

WindowPlanTexts == {Obj([sub_questions |-> PlanThreeSemantic])}

\* n passages of one source, on the pages from first on
PagesOf(source, first, n) ==
    [i \in 1..n |-> [source |-> source, page |-> first + i - 1, content |-> "x"]]

WindowSources == {"a.pdf", "b.pdf"}

\* what the store returns for the i-th query of a batch: nothing for any
\* query, or k passages each, all of one source, no page twice
WindowCalls(n) ==
    {[i \in 1..n |-> [sem |-> Docs(<< >>), sim |-> Unused]]} \cup
    {[i \in 1..n |->
        [sem |-> Docs(PagesOf(src, (i - 1) * SemanticK + 1, SemanticK)),
         sim |-> Unused]] : src \in WindowSources}

WindowAssessTexts ==
    {Obj([quality_score |-> 2, coverage_score |-> 6, evidence_strength |-> 4]),
     Obj([quality_score |-> 8, coverage_score |-> 6, evidence_strength |-> 4])}

WindowDecideTexts ==
    {Obj([decision |-> "continue", confidence |-> 7, stop_reasons |-> << >>]),
     Obj([decision |-> "stop", confidence |-> 9, stop_reasons |-> << "sufficient" >>])}

WindowInit ==
    /\ default_max_iters \in 1..MaxWindowIters
    /\ min_iters = 1
    /\ pc = "idle"
    /\ st = EmptyDict
    /\ last_call = Called("none", NoCall, << >>)
    /\ err = "none"
    /\ result = EmptyDict
    /\ events = << >>
    /\ execution = 0
    /\ mi = 0

WindowAnalyze ==
    NodeStep("analyze_question", Prose, << >>, AnalyzeQuestionFull(st, Prose), "enhanced_plan")

WindowPlan ==
    \E text \in WindowPlanTexts :
        NodeStep("enhanced_plan", text, << >>, EnhancedPlan(st, text), "parallel_retrieve")

WindowRetrieve ==
    /\ pc = "parallel_retrieve"
    /\ \E calls \in WindowCalls(Len(Queries(st))) :
        NodeStep("parallel_retrieve", NoCall, CallKinds(calls),
                 ParallelRetrieveFull(st, calls), "advanced_assess")

WindowAssess ==
    \E text \in (IF AssessCallsOracle(st) THEN WindowAssessTexts ELSE {NoCall}) :
        NodeStep("advanced_assess", text, << >>, AdvancedAssessFull(st, text), "intelligent_decide")

WindowDecide ==
    \E text \in WindowDecideTexts :
        LET res == IntelligentDecideFull(st, text) IN
        NodeStep("intelligent_decide", text, << >>, res,
                 IF res.ok THEN Route(Merge(st, res.upd)) ELSE "raised")

WindowNext ==
    \/ Ask
    \/ WindowAnalyze
    \/ WindowPlan
    \/ WindowRetrieve
    \/ WindowAssess
    \/ WindowDecide
    \/ StreamSynthesize
    \/ StreamVerify
    \/ Return

WindowSpec == WindowInit /\ [][WindowNext]_vars

(***************************************************************************)
(* ask() with an assessment oracle that does not keep to the scale the     *)
(* prompt asks for (<float 0-1>): scores above 1 and below 0.              *)
(***************************************************************************)
AssessAboveScale ==
    [quality_score |-> 15, coverage_score |-> 12, evidence_strength |-> 70,
     information_gaps |-> << >>, sufficiency_assessment |-> "sufficient"]

AssessBelowScale ==
    [quality_score |-> 0 - 2, coverage_score |-> 0 - 5, evidence_strength |-> 0 - 1,
     information_gaps |-> << "gap" >>, sufficiency_assessment |-> "partial"]

ScoreAssessTexts ==
    {Obj(AssessGood), Obj(AssessAboveScale), Obj(AssessBelowScale), Prose}

ScoreAssess ==
    \E text \in (IF AssessCallsOracle(st) THEN ScoreAssessTexts ELSE {NoCall}) :
        NodeStep("advanced_assess", text, << >>, AdvancedAssess(st, text), "intelligent_decide")

ScoreNext ==
    \/ Ask
    \/ StreamAnalyze
    \/ StreamPlan
    \/ StreamRetrieve
    \/ ScoreAssess
    \/ StreamDecide
    \/ StreamSynthesize
    \/ StreamVerify
    \/ Return

ScoreSpec == SessionInit /\ [][ScoreNext]_vars

(***************************************************************************)
(* ask() and stream() called with a max_iters argument: None, or a number  *)
(* up to MaxArgIters.                                                      *)
(***************************************************************************)
MaxArgIters == 3

ArgMaxIters == {NoneValue} \cup {IntArg(n) : n \in 0..MaxArgIters}

\* ask(question, max_iters): init = {"question": question}
AskWith ==
    /\ pc = "idle"
    /\ \E max_iters \in ArgMaxIters : mi' = Mi(max_iters)
    /\ st' = [question |-> Question]
    /\ pc' = "analyze_question"
    /\ UNCHANGED <<default_max_iters, min_iters, last_call, err, result, events, execution>>

\* stream(question, max_iters): init = {"question": question}
StreamWith ==
    /\ pc = "idle"
    /\ \E max_iters \in ArgMaxIters : mi' = Mi(max_iters)
    /\ st' = [question |-> Question]
    /\ pc' = "analyze_question"
    /\ execution' = 1
    /\ UNCHANGED <<default_max_iters, min_iters, last_call, err, result, events>>

\* ask() returns
ArgReturn == execution = 0 /\ Return

ArgNext ==
    \/ AskWith
    \/ StreamWith
    \/ StreamAnalyze
    \/ StreamPlan
    \/ StreamRetrieve
    \/ StreamAssess
    \/ StreamDecide
    \/ StreamSynthesize
    \/ StreamVerify
    \/ ArgReturn
    \/ StreamInvoke
    \/ StreamFinal

ArgSpec == SessionInit /\ [][ArgNext]_vars

(***************************************************************************)
(* ask() with a planner's oracle that tags its sub-questions "keyword"     *)
(* (which the planning prompt offers) and with a tag nobody offers.        *)
(***************************************************************************)
PlanOtherTags ==
    << [query |-> "q1", priority |-> 9, strategy |-> "keyword"],
       [query |-> "q2", priority |-> 5, strategy |-> "fuzzy"],
       [query |-> "q3", priority |-> 3, strategy |-> "similarity"] >>

StrategyPlanTexts == {Obj([sub_questions |-> PlanOtherTags])}

StrategyPlan ==
    \E text \in StrategyPlanTexts :
        NodeStep("enhanced_plan", text, << >>, EnhancedPlan(st, text), "parallel_retrieve")

\* the retrieval, here recorded with the passages each call returned
StrategyRetrieve ==
    /\ pc = "parallel_retrieve"
    /\ \E calls \in BatchCalls(st, Queries(st)) :
        /\ \A i \in 1..Len(calls) :
                {calls[i].sem, calls[i].sim} \subseteq StreamStoreOutcomes \cup {Unused}
        /\ NodeStep("parallel_retrieve", NoCall, calls,
                    ParallelRetrieve(st, calls), "advanced_assess")

StrategyNext ==
    \/ Ask
    \/ StreamAnalyze
    \/ StrategyPlan
    \/ StrategyRetrieve
    \/ StreamAssess
    \/ StreamDecide
    \/ StreamSynthesize
    \/ StreamVerify
    \/ Return

StrategySpec == SessionInit /\ [][StrategyNext]_vars

(***************************************************************************)
(* enhanced_plan on its own, over the lists a planner's oracle can        *)
(* propose: up to MaxProposed sub-questions, told apart by their query,    *)
(* each with one of three priorities or none.                             *)
(***************************************************************************)
MaxProposed == 4

QueryNames == << "q1", "q2", "q3", "q4", "q5", "q6" >>

ProposedPriorities == {3, 5, 9}

ProposedAt(i) ==
    {[query |-> QueryNames[i], strategy |-> "semantic"]} \cup
    {[query |-> QueryNames[i], priority |-> p, strategy |-> "semantic"] :
        p \in ProposedPriorities}

RECURSIVE ProposedOfLen(_)
ProposedOfLen(n) ==
    IF n = 0 THEN {<< >>}
    ELSE {Append(l, sq) : l \in ProposedOfLen(n - 1), sq \in ProposedAt(n)}

PlanInit ==
    /\ default_max_iters = 3
    /\ min_iters = 1
    /\ pc = "enhanced_plan"
    /\ st = [question |-> Question]
    /\ last_call = Called("none", NoCall, << >>)
    /\ err = "none"
    /\ result = EmptyDict
    /\ events = << >>
    /\ execution = 0
    /\ mi = 0

PlanAny ==
    \E n \in 0..MaxProposed : \E sqs \in ProposedOfLen(n) :
        LET text == Obj([sub_questions |-> sqs]) IN
        NodeStep("enhanced_plan", text, << >>, EnhancedPlan(st, text), "parallel_retrieve")

PlanNext == PlanAny

PlanSpec == PlanInit /\ [][PlanNext]_vars

(***************************************************************************)
(* Properties                                                              *)
(***************************************************************************)
AfterLoop == {"enhanced_synthesis", "advanced_verify", "END", "returned"}

OracleSaid(node, decision) ==
    /\ last_call.node = node
    /\ last_call.oracle.kind = "object"
    /\ "decision" \in DOMAIN last_call.oracle.obj
    /\ last_call.oracle.obj.decision = decision

\* C1 as stated: in every configuration the number of cycles executed (the
\* iteration value of the final trace) is at most max_dynamic_iters.
C1_CeilingInEveryConfiguration ==
    /\ pc \in AfterLoop => st.iteration <= st.max_dynamic_iters
    /\ pc = "returned" => result.iterations <= st.max_dynamic_iters

\* C1 as amended: the number of cycles executed is at most the larger of
\* max_dynamic_iters and min_iters, whatever the oracle decides; so the
\* ceiling max_dynamic_iters holds in every configuration whose min_iters
\* does not exceed it.
C1_CeilingUnlessFloorExceedsIt ==
    /\ "iteration" \in DOMAIN st =>
            st.iteration <= Max2(st.max_dynamic_iters, min_iters)
    /\ pc = "returned" =>
            /\ result.iterations <= Max2(st.max_dynamic_iters, min_iters)
            /\ min_iters <= st.max_dynamic_iters =>
                    result.iterations <= st.max_dynamic_iters

\* the backstop stopped a loop whose oracle answered continue
C1_Witness ==
    /\ pc = "enhanced_synthesis"
    /\ OracleSaid("intelligent_decide", "continue")
    /\ st.stop
    /\ st.iteration = st.max_dynamic_iters
    /\ st.max_dynamic_iters < default_max_iters
    /\ min_iters <= st.max_dynamic_iters

\* C2: the router leaves the loop for the synthesizer only after at least
\* min_iters cycles, whatever the oracle answers, so the iteration value of
\* the final trace is at least min_iters.
C2_FloorBeforeStop ==
    /\ pc \in AfterLoop => st.iteration >= min_iters
    /\ pc = "returned" => result.iterations >= min_iters

\* the oracle answered stop below the floor and the loop went on
C2_Witness ==
    /\ pc = "enhanced_plan"
    /\ OracleSaid("intelligent_decide", "stop")
    /\ ~st.stop
    /\ st.iteration < min_iters

\* C3: a run in which every oracle call and every retrieval call returns
\* ends with ask() returning an answer, whatever the oracle responds: ask()
\* raises only when a call did not return.
C3_EveryRunReturnsAnAnswer ==
    pc = "raised" => err = "TransportError"

StoreRaised ==
    \E i \in 1..Len(last_call.store) :
        "raise" \in {last_call.store[i].sem, last_call.store[i].sim}

\* C4: a node whose oracle text does not parse as JSON continues with its
\* documented default (analyzer: complexity 5.0, type analytical, 4 hops;
\* planner: the original question alone, semantic, priority 1.0; assessor:
\* 0.5 three times, partial; controller: continue; verifier: fail), raises
\* nothing and hands over to the next node.
C4_ParseFailureGivesDefault ==
    last_call.oracle = Prose =>
        /\ err = "none"
        /\ last_call.node = "analyze_question" =>
                /\ pc = "enhanced_plan"
                /\ st.question_complexity = 50
                /\ st.question_type = "analytical"
                /\ st.estimated_hops = 4
        /\ last_call.node = "enhanced_plan" =>
                /\ pc = "parallel_retrieve"
                /\ st.sub_questions =
                      << [query |-> st.question, priority |-> 10, strategy |-> "semantic"] >>
                /\ st.current_query_batch = << st.question >>
        /\ last_call.node = "advanced_assess" =>
                /\ pc = "intelligent_decide"
                /\ st.context_quality_score = 5
                /\ st.coverage_score = 5
                /\ st.evidence_strength = 5
                /\ st.sufficiency_assessment = "partial"
        /\ last_call.node = "intelligent_decide" =>
                /\ pc \in {"enhanced_plan", "enhanced_synthesis"}
                /\ st.stop <=> (st.iteration >= st.max_dynamic_iters
                                /\ st.iteration >= min_iters)
                /\ st.stop_reasons =
                      IF st.iteration >= st.max_dynamic_iters
                      THEN << "Reached maximum iterations" >> ELSE << >>
        /\ last_call.node = "advanced_verify" =>
                /\ pc \in {"END", "returned"}
                /\ st.grounded_ok = FALSE

\* the controller's oracle text did not parse on the last cycle of the budget
C4_Witness ==
    /\ last_call = Called("intelligent_decide", Prose, << >>)
    /\ pc = "enhanced_synthesis"
    /\ st.stop_reasons = << "Reached maximum iterations" >>

\* C5: a response that parses as JSON but lacks fields, or is not a JSON
\* object, is recovered with defaults: the node that received it raises nothing.
C5_MalformedJsonRecovered ==
    last_call.oracle.kind \in {"object", "wrapped", "scalar", "array"} =>
        /\ pc # "raised"
        /\ err = "none"

\* C6 as stated: when the oracle or the evidence store is unreachable,
\* ask() fails with one error and returns no answer.
C6_UnreachableFailsTheRun ==
    (last_call.oracle = Unreachable \/ StoreRaised) =>
        /\ pc = "raised"
        /\ err = "TransportError"
        /\ result = EmptyDict

AllQueriesRaised ==
    /\ last_call.store # << >>
    /\ \A i \in 1..Len(last_call.store) :
        "raise" \in {last_call.store[i].sem, last_call.store[i].sim}

\* C6 as amended: when the oracle is unreachable ask() fails with one
\* transport error, without retry and without an answer; when the evidence
\* store is unreachable the retrieval call's error is caught, the query counts
\* as having no results, and the run goes on to the assessor.
C6_OracleFailsStoreIsCaught ==
    /\ last_call.oracle = Unreachable =>
            /\ pc = "raised"
            /\ err = "TransportError"
            /\ result = EmptyDict
    /\ err = "TransportError" => last_call.oracle = Unreachable
    /\ StoreRaised =>
            /\ pc = "advanced_assess"
            /\ err = "none"
    /\ AllQueriesRaised => st.last_batch = << >>
    /\ pc = "returned" => err = "none"

\* a store call raised in a batch that still brought passages
C6_Witness ==
    /\ last_call.node = "parallel_retrieve"
    /\ StoreRaised
    /\ pc = "advanced_assess"
    /\ st.last_batch # << >>

\* C7: when no retrieval of the run returned a passage (the accumulator is
\* empty at synthesis), the answer is the fixed no-evidence sentence, the
\* confidence is 0.0 and the synthesizer calls no oracle.
C7_NoEvidenceAnswer ==
    /\ (pc \in {"advanced_verify", "END", "returned"} /\ st.evidence_docs = << >>) =>
            /\ st.final_answer =
                  "I couldn't find any relevant evidence in the knowledge base for this query."
            /\ st.answer_confidence = 0
    /\ (pc = "advanced_verify" /\ st.evidence_docs = << >>) =>
            last_call = Called("enhanced_synthesis", NoCall, << >>)
    /\ (pc = "returned" /\ result.evidence_count = 0) =>
            /\ result.answer =
                  "I couldn't find any relevant evidence in the knowledge base for this query."
            /\ result.answer_confidence = 0

\* two cycles retrieved nothing and ask() returned
C7_Witness ==
    /\ pc = "returned"
    /\ result.evidence_count = 0
    /\ result.iterations >= 2

\* C8: with a non-empty accumulator at synthesis, the confidence is
\* 0.4*quality + 0.4*coverage + 0.2*evidence_strength of the latest
\* assessment (here in hundredths, the scores in tenths), whatever text the
\* synthesis oracle returned.
C8_ConfidenceIsWeightedBlend ==
    /\ (pc \in {"advanced_verify", "END", "returned"} /\ st.evidence_docs # << >>) =>
            st.answer_confidence =
                4 * st.context_quality_score + 4 * st.coverage_score
                    + 2 * st.evidence_strength
    /\ (pc = "returned" /\ result.evidence_count > 0) =>
            result.answer_confidence =
                4 * st.context_quality_score + 4 * st.coverage_score
                    + 2 * st.evidence_strength

\* scores 0.8, 0.6, 0.4 give 0.64, here with an answer text that strips to ""
C8_Witness ==
    /\ pc = "advanced_verify"
    /\ st.evidence_docs # << >>
    /\ st.context_quality_score = 8
    /\ st.coverage_score = 6
    /\ st.evidence_strength = 4
    /\ st.answer_confidence = 64
    /\ st.final_answer = ""

\* C9: merging a passage list into an accumulator twice gives the very
\* accumulator, in the same order, that merging it once gives:
\* dedupe(dedupe(A+L)+L) = dedupe(A+L) for every A and L.
C9_MergeIdempotent ==
    pc = "merged_twice" => st.evidence_docs = result.once

\* a list that repeats a key of the accumulator with another content, and
\* one of its own keys, merged twice
C9_Witness ==
    /\ pc = "merged_twice"
    /\ st.last_batch = << P2, P3 >>
    /\ st.evidence_docs = << P1, P3 >>
    /\ result.once = << P1, P3 >>

IsPrefix(a, b) == Len(a) <= Len(b) /\ SubSeq(b, 1, Len(a)) = a

\* C10: after the analyzer's reset, every step of the run keeps each passage
\* already accumulated, in the same order, and only appends: the accumulator
\* before the step is a prefix of the accumulator after it.
C10_AccumulatorAppendOnly ==
    [][("evidence_docs" \in DOMAIN st /\ pc # "analyze_question") =>
            /\ "evidence_docs" \in DOMAIN st'
            /\ IsPrefix(st.evidence_docs, st'.evidence_docs)
            /\ Len(st'.evidence_docs) >= Len(st.evidence_docs)]_vars

\* a later cycle retrieved a duplicate of a kept passage and one new passage
C10_Witness ==
    /\ pc = "advanced_assess"
    /\ st.iteration >= 1
    /\ st.last_batch = << P1, P3 >>
    /\ st.evidence_docs = << P2, P3 >>

\* the position of the first passage of docs that has this (source, page)
FirstWith(docs, source, page) ==
    CHOOSE i \in 1..Len(docs) :
        /\ docs[i].source = source /\ docs[i].page = page
        /\ \A j \in 1..(i - 1) : ~(docs[j].source = source /\ docs[j].page = page)

NoTwoOfOnePage(docs) ==
    \A i, j \in 1..Len(docs) :
        (docs[i].source = docs[j].source /\ docs[i].page = docs[j].page) => i = j

\* out holds, for every (source, page) of seen, the first passage of seen that
\* has it, and holds them in the order in which seen first shows them
FirstSeenOf(seen, out) ==
    /\ NoTwoOfOnePage(out)
    /\ \A i \in 1..Len(seen) :
        \E k \in 1..Len(out) :
            out[k].source = seen[i].source /\ out[k].page = seen[i].page
    /\ \A k \in 1..Len(out) :
        /\ \E i \in 1..Len(seen) :
            seen[i].source = out[k].source /\ seen[i].page = out[k].page
        /\ out[k] = seen[FirstWith(seen, out[k].source, out[k].page)]
    /\ \A k, l \in 1..Len(out) :
        k < l => FirstWith(seen, out[k].source, out[k].page)
                    < FirstWith(seen, out[l].source, out[l].page)

\* C11: the accumulator never holds two passages with the same (source, page);
\* of the passages seen with one (source, page), in the accumulator and then
\* in the batch a retrieval brought, the first is the one kept, whatever the
\* content of the later ones; and the passages stand in first-seen order.
C11_OnePassagePerSourcePage ==
    /\ []("evidence_docs" \in DOMAIN st => NoTwoOfOnePage(st.evidence_docs))
    /\ []("last_batch" \in DOMAIN st => NoTwoOfOnePage(st.last_batch))
    /\ [][(pc = "parallel_retrieve" /\ pc' = "advanced_assess") =>
            FirstSeenOf(st.evidence_docs \o st'.last_batch, st'.evidence_docs)]_vars

\* the accumulator holds the "x" text of page 3 and a later batch brought its
\* "y" text alone: the "x" text stays and nothing is added
C11_Witness ==
    /\ pc = "advanced_assess"
    /\ st.iteration >= 1
    /\ st.last_batch = << P2 >>
    /\ st.evidence_docs = << P1, P3 >>

\* C12: in every planning round the active batch (current_query_batch) holds
\* at most 3 queries, however many sub-questions the planner's oracle proposed.
C12_BatchAtMostThree ==
    "current_query_batch" \in DOMAIN st =>
        /\ Len(st.current_query_batch) <= 3
        /\ Len(st.current_query_batch) <= Len(st.sub_questions)

\* the oracle proposed four sub-questions; the three of highest priority,
\* ties in the proposed order, are the batch
C12_Witness ==
    /\ last_call.node = "enhanced_plan"
    /\ pc = "parallel_retrieve"
    /\ Len(st.sub_questions) = 4
    /\ st.current_query_batch = << "q2", "q1", "q3" >>

\* C13: when the planner's oracle text is not JSON, the planner raises
\* nothing, the plan is the original question alone with strategy "semantic"
\* and priority 1.0, the active batch is exactly that question, and the run
\* goes on to the retrieval, which queries the store for it semantically.
C13_PlanFallbackIsTheQuestion ==
    /\ last_call = Called("enhanced_plan", Prose, << >>) =>
            /\ pc = "parallel_retrieve"
            /\ err = "none"
            /\ st.current_query_batch = << Question >>
            /\ st.sub_question = Question
            /\ Len(st.sub_questions) = 1
            /\ st.sub_questions[1].query = Question
            /\ st.sub_questions[1].strategy = "semantic"
            /\ st.sub_questions[1].priority = 10
    /\ (last_call.node = "parallel_retrieve" /\ pc = "advanced_assess"
            /\ st.current_query_batch = << Question >>) =>
            /\ Len(last_call.store) = 1
            /\ last_call.store[1].sem # "unused"
            /\ last_call.store[1].sim = "unused"

\* the second planning round of a run fell back to the original question
C13_Witness ==
    /\ last_call = Called("enhanced_plan", Prose, << >>)
    /\ pc = "parallel_retrieve"
    /\ st.iteration = 1
    /\ st.current_query_batch = << Question >>
    /\ st.evidence_docs # << >>

\* C14 as stated: max_dynamic_iters is complexity*0.8 + estimated_hops*0.5
\* rounded to the nearest integer, raised to at least 2 and capped at the
\* configured maximum.
C14_BudgetIsClampOfRounded ==
    "max_dynamic_iters" \in DOMAIN st =>
        st.max_dynamic_iters =
            Min2(default_max_iters,
                 Max2(2, RoundHalfEven(8 * st.question_complexity
                                        + 50 * st.estimated_hops, 100)))

\* C14 as amended: max_dynamic_iters is complexity*0.8 + estimated_hops*0.5
\* with its fractional part dropped, raised to at least 2 and then capped at
\* the configured maximum (complexity in tenths: the sum is
\* (8*complexity + 50*hops)/100).
C14_BudgetIsClampOfTruncated ==
    "max_dynamic_iters" \in DOMAIN st =>
        /\ st.max_dynamic_iters =
            Min2(default_max_iters,
                 Max2(2, (8 * st.question_complexity + 50 * st.estimated_hops) \div 100))
        /\ st.max_dynamic_iters <= default_max_iters
        /\ default_max_iters >= 2 => st.max_dynamic_iters >= 2

\* complexity 2.0 and 2 hops, a sum of 2.6, under a budget of 8: the value
\* is 2, and 3 is what rounding would give
C14_Witness ==
    /\ pc = "enhanced_plan"
    /\ default_max_iters = 8
    /\ st.question_complexity = 20
    /\ st.estimated_hops = 2
    /\ st.max_dynamic_iters = 2

VerdictFail ==
    /\ last_call.node = "advanced_verify"
    /\ last_call.oracle = Obj([overall_grounding |-> "fail"])

\* C15: when the verifier's verdict is "fail" the run ends normally right
\* after the verification: the next thing is END, neither the planner nor the
\* controller runs again, the verification leaves the answer and the cycle
\* count as they were, ask() returns that answer, and grounded_ok of the
\* trace is false.
C15_FailVerdictEndsTheRun ==
    /\ [](VerdictFail =>
            /\ pc \in {"END", "returned"}
            /\ err = "none"
            /\ st.grounded_ok = FALSE
            /\ pc = "returned" =>
                    /\ result.grounded_ok = FALSE
                    /\ result.answer = st.final_answer)
    /\ [][(pc = "advanced_verify" /\ pc' # "raised") =>
            /\ pc' = "END"
            /\ st'.final_answer = st.final_answer
            /\ st'.iteration = st.iteration
            /\ st'.stop = st.stop]_vars
    /\ [][pc = "END" =>
            /\ pc' = "returned"
            /\ st' = st
            /\ result'.answer = st.final_answer]_vars

\* ask() returned the synthesized answer of a run whose verdict was "fail"
C15_Witness ==
    /\ VerdictFail
    /\ pc = "returned"
    /\ result.answer = "Answer A."
    /\ result.grounded_ok = FALSE
    /\ result.iterations = 1

\* C16: a policy question that is empty or only whitespace is rejected
\* before the pipeline is entered: ask() is not invoked (the session state
\* stays empty) and the response is the client error 422, not a server error.
C16_EmptyQuestionRejectedWith422 ==
    /\ (pc = "responded" /\ st = EmptyDict) => result.status = 422
    /\ pc = "responded" => (st = EmptyDict <=> result.status = 422)
    /\ "question" \in DOMAIN st => Strip(st.question) # ""

ProfileKeys ==
    {"max_dynamic_iters", "question_complexity", "question_type", "estimated_hops"}

\* C17: max_dynamic_iters and the Question Profile fields (complexity, type,
\* estimated hops) are written by the analyzer alone: they are all present
\* once the analyzer has run, and every step of any other node (and ask()'s
\* return) leaves each of them as it was.
C17_ProfileWrittenByAnalyzerOnly ==
    /\ [](pc \notin {"idle", "analyze_question", "raised"} => ProfileKeys \subseteq DOMAIN st)
    /\ [][pc \notin {"idle", "analyze_question"} =>
            \A k \in ProfileKeys \cap DOMAIN st :
                k \in DOMAIN st' /\ st'[k] = st[k]]_vars

\* two cycles ran under a budget of 2 that the analyzer set below the
\* configured 3, and the run reached END with the profile of the analysis
C17_Witness ==
    /\ pc = "END"
    /\ default_max_iters = 3
    /\ st.iteration = 2
    /\ st.max_dynamic_iters = 2
    /\ st.question_complexity = 20
    /\ st.estimated_hops = 2
    /\ st.question_type = "analytical"

\* C18: the nodes run in the fixed order analyze, then one or more
\* repetitions of plan, retrieve, assess, decide, then synthesize, verify,
\* END.  Each node hands over to its one successor (or its exception ends the
\* run); after decide the next node is the synthesizer exactly when the stop
\* flag it wrote is true, else the planner; nothing leads back to the analyzer
\* or out of the synthesizer and the verifier except forward, so these three
\* run once; and the synthesizer is reached only after at least one cycle.
C18_FixedNodeOrder ==
    /\ [][/\ pc = "idle" => pc' = "analyze_question"
          /\ pc = "analyze_question" => pc' \in {"enhanced_plan", "raised"}
          /\ pc = "enhanced_plan" => pc' \in {"parallel_retrieve", "raised"}
          /\ pc = "parallel_retrieve" => pc' \in {"advanced_assess", "raised"}
          /\ pc = "advanced_assess" => pc' \in {"intelligent_decide", "raised"}
          /\ pc = "intelligent_decide" =>
                \/ pc' = "raised"
                \/ pc' = "enhanced_synthesis" /\ st'.stop = TRUE
                \/ pc' = "enhanced_plan" /\ st'.stop = FALSE
          /\ pc = "enhanced_synthesis" => pc' \in {"advanced_verify", "raised"}
          /\ pc = "advanced_verify" => pc' \in {"END", "raised"}
          /\ pc = "END" => pc' = "returned"
          /\ pc \in {"returned", "raised"} => pc' = pc
          /\ (pc \in {"enhanced_plan", "parallel_retrieve", "advanced_assess"}
                /\ pc' # "raised") => st'.iteration = st.iteration
          /\ (pc = "intelligent_decide" /\ pc' # "raised") =>
                st'.iteration = st.iteration + 1]_vars
    /\ [](pc \in AfterLoop => st.iteration >= 1 /\ st.stop = TRUE)
    /\ [](pc = "enhanced_plan" => (st.iteration = 0 \/ st.stop = FALSE))

\* a run of three cycles went through the synthesizer and the verifier and
\* ask() returned
C18_Witness ==
    /\ pc = "returned"
    /\ result.iterations = 3
    /\ last_call.node = "advanced_verify"
    /\ st.stop = TRUE

NodeNames ==
    {"analyze_question", "enhanced_plan", "parallel_retrieve", "advanced_assess",
     "intelligent_decide", "enhanced_synthesis", "advanced_verify"}

FinalEvents == {i \in 1..Len(events) : events[i].node = "__final__"}

\* C19: one call of stream() yields one event for every node that completes
\* in the streamed execution, in the order the nodes complete, and then, when
\* the final state has been obtained, exactly one final event carrying that
\* whole state; the final event is the last element and nothing is yielded
\* after it, so the sequence is finite.
C19_NodeEventsThenOneFinal ==
    /\ [][(execution = 1 /\ pc \in NodeNames) =>
            IF pc' = "raised" THEN events' = events
            ELSE /\ Len(events') = Len(events) + 1
                 /\ SubSeq(events', 1, Len(events)) = events
                 /\ events'[Len(events')].node = pc]_vars
    /\ [][(execution = 2 /\ pc \in NodeNames) => events' = events]_vars
    /\ [][(execution = 2 /\ pc = "END") =>
            /\ pc' = "stream_done"
            /\ events' = Append(events, [node |-> "__final__", state |-> st])]_vars
    /\ [][FinalEvents # {} => events' = events]_vars
    /\ [](FinalEvents \subseteq {Len(events)})
    /\ [](pc = "stream_done" <=> FinalEvents # {})
    /\ [](pc = "stream_done" =>
            /\ events[1].node = "analyze_question"
            /\ events[Len(events) - 1].node = "advanced_verify"
            /\ events[Len(events)].state = st
            /\ Len(events) >= 8
            /\ (Len(events) - 4) % 4 = 0)
    /\ [](Len(events) <= 4 * Max2(default_max_iters, min_iters) + 4)

\* the streamed execution ran two cycles and the second execution one: ten
\* node events and then the final event with the second execution's state
C19_Witness ==
    /\ pc = "stream_done"
    /\ Len(events) = 12
    /\ events[11].node = "advanced_verify"
    /\ events[12].node = "__final__"
    /\ events[12].state.iteration = 1

\* C20: each per-node event of stream() carries the name of the node that
\* completed together with that node's output delta, the state fields the
\* node wrote with the values it wrote.
C20_EventCarriesNodeAndDelta ==
    (execution = 1 /\ events # << >> /\ pc # "raised") =>
        LET e == events[Len(events)] IN
        /\ e.node = last_call.node
        /\ e.output # NoneValue
        /\ \A k \in DOMAIN e.output : k \in DOMAIN st /\ st[k] = e.output[k]

\* the trace ask() returns in the run that differs from this one only in the
\* verifier's oracle text, which is the given one
TraceHadVerifierHeard(text) ==
    AskResult(Merge(st, AdvancedVerify(st, text).upd))

\* C21: a fallback to a default is observable in the trace ask() returns: the
\* trace of a run whose verifier fell back to its default on an oracle text
\* that is not JSON differs from the trace of the run, the same in everything
\* else, whose oracle itself answered the default's verdict "fail".
C21_FallbackVisibleInTrace ==
    (pc = "returned" /\ last_call = Called("advanced_verify", Prose, << >>)) =>
        /\ Obj(VerifyDefault) \in VerifyTexts
        /\ result # TraceHadVerifierHeard(Obj(VerifyDefault))

\* the keys every execution of a node writes, read off the node
Bare == [question |-> Question]

KeysOf(node) ==
    CASE node = "analyze_question" -> DOMAIN AnalyzeQuestionFull(Bare, Prose).upd
      [] node = "enhanced_plan" -> DOMAIN EnhancedPlan(Bare, Prose).upd
      [] node = "parallel_retrieve" ->
            DOMAIN ParallelRetrieveFull(Bare, << [sem |-> Docs(<< >>), sim |-> Unused] >>).upd
      [] node = "advanced_assess" -> DOMAIN AdvancedAssessFull(Bare, NoCall).upd
      [] node = "intelligent_decide" ->
            DOMAIN IntelligentDecideFull(Bare, Obj([decision |-> "stop",
                                                    stop_reasons |-> << >>])).upd
      [] node = "enhanced_synthesis" -> DOMAIN EnhancedSynthesis(Bare, NoCall).upd
      [] node = "advanced_verify" -> DOMAIN AdvancedVerify(Bare, NoCall).upd

CycleOrder ==
    << "enhanced_plan", "parallel_retrieve", "advanced_assess", "intelligent_decide" >>

\* the nodes that have run in the current run when the run stands at `at`
\* with `iteration` cycles completed
RanBefore(at, iteration) ==
    IF at \in {"idle", "analyze_question"} THEN {}
    ELSE {"analyze_question"} \cup
         (IF at \in {"enhanced_synthesis", "advanced_verify", "END", "returned"}
             \/ iteration >= 1
          THEN {CycleOrder[i] : i \in 1..4}
          ELSE {CycleOrder[i] : i \in {j \in 1..4 :
                    \E k \in (j + 1)..4 : CycleOrder[k] = at}}) \cup
         (IF at \in {"advanced_verify", "END", "returned"}
          THEN {"enhanced_synthesis"} ELSE {}) \cup
         (IF at \in {"END", "returned"} THEN {"advanced_verify"} ELSE {})

\* the state without what only an earlier run wrote
RunLocal(state, at) ==
    LET written == {"question"} \cup
                   UNION {KeysOf(n) : n \in RanBefore(at, Get(state, "iteration", 0))}
    IN [k \in (DOMAIN state) \cap written |-> state[k]]

SecondRun == "question" \in DOMAIN st /\ st.question = Question2

\* left by the first run and not yet written by the second
StaleKeys == (DOMAIN st) \ DOMAIN RunLocal(st, pc)

\* C22: in a call of ask() on a thread that holds an earlier completed run,
\* the analyzer resets evidence, hints, gaps and the quality history to
\* empty, and everything a node reads of the state (and everything the
\* trace is built from) is the same whether or not the keys that only the
\* earlier run wrote are there: the run's answer and trace depend on the new
\* question and the new run's responses alone.
C22_SecondRunReadsOnlyItsOwnWrites ==
    /\ (SecondRun /\ pc \in NodeNames \cup {"END"}) =>
            NodeInputs(pc, st) = NodeInputs(pc, RunLocal(st, pc))
    /\ (SecondRun /\ pc \in {"enhanced_plan", "enhanced_synthesis"}
            /\ last_call.node = "intelligent_decide") =>
            /\ Route(st) = pc
            /\ Route(st) = Route(RunLocal(st, pc))
    /\ (SecondRun /\ pc = "enhanced_plan" /\ st.iteration = 0) =>
            /\ st.evidence_docs = << >>
            /\ st.evidence_hints = << >>
            /\ st.gaps = << >>
            /\ st.information_gaps = << >>
            /\ st.recent_quality_improvements = << >>
    /\ (SecondRun /\ pc = "returned") =>
            /\ result = AskResult(RunLocal(st, pc))
            /\ AskDebug(st) = AskDebug(RunLocal(st, pc))

\* the second call stands before its first planning round on a thread whose
\* first run accumulated evidence, returned an answer and left its plan,
\* batch, verdicts and stop flag in the checkpoint
C22_Witness ==
    /\ SecondRun
    /\ pc = "enhanced_plan"
    /\ st.iteration = 0
    /\ result.evidence_count = 2
    /\ result.answer = "Answer A."
    /\ st.last_batch # << >>
    /\ st.stop = TRUE
    /\ {"final_answer", "stop", "stop_reasons", "sub_questions", "last_batch",
        "sufficiency_assessment", "grounded_ok"} \subseteq StaleKeys

\* the oracle's own decision read off its text: stop only for an object whose
\* decision is the word stop in any case
OracleDecidedStop(text) ==
    /\ text.kind \in {"object", "wrapped"}
    /\ "decision" \in DOMAIN text.obj
    /\ text.obj.decision \in {"stop", "STOP", "Stop"}

\* C23: at each decide step that completes, with n the number of the cycle
\* (iteration + 1, the value the step writes), stop is false if n < min_iters;
\* otherwise true if n >= max_dynamic_iters; otherwise the oracle's decision,
\* which is stop only when the parsed decision is "stop" in any case, and
\* continue for any other value and for a text that does not parse.
C23_StopPrecedence ==
    (last_call.node = "intelligent_decide" /\ pc # "raised") =>
        st.stop =
            IF st.iteration < min_iters THEN FALSE
            ELSE IF st.iteration >= st.max_dynamic_iters THEN TRUE
            ELSE OracleDecidedStop(last_call.oracle)

\* below the budget and at the floor, the oracle's upper-case STOP stopped
\* the loop
C23_Witness ==
    /\ OracleSaid("intelligent_decide", "STOP")
    /\ pc = "enhanced_synthesis"
    /\ st.stop = TRUE
    /\ st.iteration >= min_iters
    /\ st.iteration < st.max_dynamic_iters

\* C24: with a decision oracle that always answers continue, a run executes
\* exactly max(min_iters, max_dynamic_iters, 1) cycles: every run whose calls
\* all return comes back from ask() with that iteration count, and meanwhile
\* the loop is never left before it nor continued after it.
C24_ContinueRunsLargestOfThree ==
    /\ pc = "raised" => last_call.oracle = Unreachable
    /\ pc \in AfterLoop =>
            st.iteration = Max2(Max2(min_iters, st.max_dynamic_iters), 1)
    /\ pc = "returned" =>
            result.iterations = Max2(Max2(min_iters, st.max_dynamic_iters), 1)

DecideEvents == {i \in 1..Len(events) : events[i].node = "intelligent_decide"}

\* C25: the iteration counter is 0 after the analyzer, every decide step
\* that completes adds exactly 1 to it, and every other node leaves it as it
\* is; so at any point of the streamed execution it equals the number of
\* decide steps completed so far (the number of decide events yielded).
C25_IterationCountsDecideSteps ==
    /\ [][(pc = "analyze_question" /\ pc' # "raised") => st'.iteration = 0]_vars
    /\ [][(pc = "intelligent_decide" /\ pc' # "raised") =>
            st'.iteration = st.iteration + 1]_vars
    /\ [][(pc \in NodeNames \ {"analyze_question", "intelligent_decide"}) =>
            st'.iteration = st.iteration]_vars
    /\ []((execution = 1 /\ pc \notin {"idle", "analyze_question"}
            /\ "iteration" \in DOMAIN st) =>
                st.iteration = Cardinality(DecideEvents))

\* the streamed execution ended after two decide steps
C25_Witness ==
    /\ execution = 1
    /\ pc = "END"
    /\ st.iteration = 2
    /\ Cardinality(DecideEvents) = 2
    /\ Len(events) = 11

Reasons(seq) == {seq[i] : i \in 1..Len(seq)}

\* C26: when a decide step completes with the budget exhausted
\* (iteration + 1 >= max_dynamic_iters), the stop reasons it writes contain
\* "Reached maximum iterations", and so do the stop reasons of the trace
\* ask() returns for a run whose last decide step was one, whatever the
\* oracle answered.
C26_BudgetStopIsRecorded ==
    /\ (last_call.node = "intelligent_decide" /\ pc # "raised"
            /\ st.iteration >= st.max_dynamic_iters) =>
                MaxReason \in Reasons(st.stop_reasons)
    /\ (pc = "returned" /\ result.iterations >= st.max_dynamic_iters) =>
                MaxReason \in Reasons(result.stop_reasons)

\* a run that the oracle itself stopped at the step that spent the budget
C26_Witness ==
    /\ pc = "returned"
    /\ result.iterations = st.max_dynamic_iters
    /\ result.stop_reasons = << "sufficient", MaxReason >>

\* what query i of the batch contributes: nothing when one of its retriever
\* calls raised, else what its calls returned
Contribution(state, calls, i) ==
    LET r == TryRetrieve(StrategyFor(state, Queries(state)[i]), calls[i].sem, calls[i].sim)
    IN IF "raise" \in {calls[i].sem.kind, calls[i].sim.kind} THEN << >> ELSE r.docs

RaisedAt(store, i) == "raise" \in {store[i].sem, store[i].sim}

\* C27: a retrieval call that raises counts as zero results for its own query
\* only: every query of the batch is executed whatever the earlier ones did,
\* the passages of the queries whose calls returned are fused into the batch
\* and into the accumulator, and the retrieval step hands over to the
\* assessor without raising.
C27_RaisingQueryCountsAsEmpty ==
    [][pc = "parallel_retrieve" =>
        /\ pc' = "advanced_assess"
        /\ err' = err
        /\ Len(last_call'.store) = Len(Queries(st))
        /\ \A i \in 1..Len(last_call'.store) : last_call'.store[i].sem # "unused"
                                               \/ last_call'.store[i].sim # "unused"
        /\ \E calls \in BatchCalls(st, Queries(st)) :
            LET fused == DedupeDocs(Concat([i \in 1..Len(calls) |->
                                                Contribution(st, calls, i)]))
            IN /\ CallKinds(calls) = last_call'.store
               /\ st'.last_batch = fused
               /\ st'.evidence_docs =
                    DedupeDocs(Get(st, "evidence_docs", << >>) \o fused)]_vars

\* the first query's call raised, a later query of the same batch was still
\* retrieved and its passages reached the accumulator
C27_Witness ==
    /\ last_call.node = "parallel_retrieve"
    /\ pc = "advanced_assess"
    /\ Len(last_call.store) = 3
    /\ RaisedAt(last_call.store, 1)
    /\ ~RaisedAt(last_call.store, 2)
    /\ RaisedAt(last_call.store, 3)
    /\ st.last_batch = << P1, P3 >>
    /\ st.evidence_docs = << P1, P3 >>

\* the strategy the planner attached to this query text: that of the first
\* sub-question of its list carrying the text, "semantic" when none does
PlannedStrategy(state, query) ==
    LET sqs == Get(state, "sub_questions", << >>)
        same == {j \in 1..Len(sqs) : "query" \in DOMAIN sqs[j] /\ sqs[j].query = query}
    IN IF same = {} THEN "semantic"
       ELSE LET first == CHOOSE j \in same : \A k \in same : j <= k
            IN Get(sqs[first], "strategy", "semantic")

\* what a query retrieved with a named strategy returns from calls that
\* returned
ResultOf(strategy, call) ==
    CASE strategy = "semantic" -> call.sem.docs
      [] strategy = "similarity" -> call.sim.docs
      [] strategy = "hybrid" -> DedupeDocs(call.sem.docs \o call.sim.docs)

NamedStrategies == {"semantic", "similarity", "hybrid"}

\* C28: each query of the batch is retrieved with the strategy of the
\* planner's sub-question of the same text ("semantic" when none matches):
\* "semantic" calls the diversity-aware (MMR) retriever alone, "similarity"
\* the pure-similarity retriever alone, "hybrid" both, and a batch whose
\* calls all returned is the fusion of, per query, the one mode's passages
\* or, for hybrid, the two modes' passages deduplicated by (source, page).
C28_StrategySelectsTheModes ==
    [][pc = "parallel_retrieve" =>
        LET queries == Queries(st)
            strategy == [i \in 1..Len(queries) |-> PlannedStrategy(st, queries[i])]
            store == last_call'.store
        IN /\ Len(store) = Len(queries)
           /\ \A i \in 1..Len(queries) :
                /\ strategy[i] = "semantic" =>
                        store[i].sem # "unused" /\ store[i].sim = "unused"
                /\ strategy[i] = "similarity" =>
                        store[i].sem = "unused" /\ store[i].sim # "unused"
                /\ strategy[i] = "hybrid" =>
                        store[i].sem # "unused"
                        /\ (store[i].sem = "docs" => store[i].sim # "unused")
           /\ ((\A i \in 1..Len(queries) :
                    strategy[i] \in NamedStrategies /\ ~RaisedAt(store, i)) =>
                \E calls \in BatchCalls(st, queries) :
                    /\ CallKinds(calls) = store
                    /\ st'.last_batch =
                        DedupeDocs(Concat([i \in 1..Len(queries) |->
                                            ResultOf(strategy[i], calls[i])])))]_vars

\* a batch of a similarity, a semantic and a hybrid query, in the planner's
\* order, each retrieved by its own modes; the two modes' passages of one
\* page are one passage of the batch
C28_Witness ==
    /\ last_call.node = "parallel_retrieve"
    /\ pc = "advanced_assess"
    /\ st.current_query_batch = << "q2", "q1", "q3" >>
    /\ last_call.store = << [sem |-> "unused", sim |-> "docs"],
                            [sem |-> "docs", sim |-> "unused"],
                            [sem |-> "docs", sim |-> "docs"] >>
    /\ st.last_batch = << P2 >>

\* where a stable sort by descending priority puts element i of the list:
\* after the elements of higher priority and after the earlier elements of
\* its own priority
RankOf(sqs, i) ==
    Cardinality({j \in 1..Len(sqs) : Priority(sqs[j]) > Priority(sqs[i])})
    + Cardinality({j \in 1..i : Priority(sqs[j]) = Priority(sqs[i])})

\* C29: the planner's sub_questions are the oracle's proposals ordered by
\* priority descending (a missing priority counts 0.5), proposals of equal
\* priority in the oracle's order, and the active batch is exactly the
\* queries of the first min(3, n) of them in that order.
C29_StableDescendingTopThree ==
    (last_call.node = "enhanced_plan" /\ last_call.oracle.kind = "object") =>
        LET proposed == last_call.oracle.obj.sub_questions
            n == Len(proposed)
        IN /\ pc = "parallel_retrieve"
           /\ Len(st.sub_questions) = n
           /\ \A i \in 1..n : st.sub_questions[RankOf(proposed, i)] = proposed[i]
           /\ \A i \in 1..(n - 1) :
                Priority(st.sub_questions[i]) >= Priority(st.sub_questions[i + 1])
           /\ Len(st.current_query_batch) = Min2(3, n)
           /\ \A i \in 1..Min2(3, n) :
                st.current_query_batch[i] = st.sub_questions[i].query

\* four proposals; the second and the fourth (no priority: 0.5) tie with
\* nothing above them but the third, and keep their order
C29_Witness ==
    /\ last_call.node = "enhanced_plan"
    /\ last_call.oracle.obj.sub_questions =
            << [query |-> "q1", priority |-> 3, strategy |-> "semantic"],
               [query |-> "q2", priority |-> 5, strategy |-> "semantic"],
               [query |-> "q3", priority |-> 9, strategy |-> "semantic"],
               [query |-> "q4", strategy |-> "semantic"] >>
    /\ st.current_query_batch = << "q3", "q2", "q4" >>

\* C30: an assess step that finds the accumulator empty calls no oracle and
\* writes quality, coverage and evidence strength 0, the one gap "No relevant
\* documents found" and sufficiency "insufficient"; an assess step that finds
\* passages does call the oracle.
C30_EmptyAccumulatorShortCircuit ==
    last_call.node = "advanced_assess" =>
        /\ (st.evidence_docs = << >>) <=> (last_call.oracle = NoCall)
        /\ st.evidence_docs = << >> =>
            /\ pc = "intelligent_decide"
            /\ err = "none"
            /\ st.context_quality_score = 0
            /\ st.coverage_score = 0
            /\ st.evidence_strength = 0
            /\ st.information_gaps = << "No relevant documents found" >>
            /\ st.sufficiency_assessment = "insufficient"

\* the second cycle's assess step of a run whose retrievals brought nothing
C30_Witness ==
    /\ last_call = Called("advanced_assess", NoCall, << >>)
    /\ pc = "intelligent_decide"
    /\ st.iteration = 1
    /\ st.evidence_docs = << >>
    /\ st.information_gaps = << "No relevant documents found" >>

\* C31: an assessment made on non-empty evidence appends (the quality score
\* it read from the oracle minus the quality score of the state it ran on)
\* to the history of the state it ran on and keeps the 3 most recent
\* entries, evicting the oldest; the history never has more than 3 entries.
C31_ImprovementHistoryWindow ==
    /\ [][(pc = "advanced_assess" /\ pc' = "intelligent_decide"
            /\ st.evidence_docs # << >>) =>
            LET delta == st'.context_quality_score - st.context_quality_score
                full == Append(st.recent_quality_improvements, delta)
                n == Len(full)
            IN /\ Len(st'.recent_quality_improvements) = Min2(3, n)
               /\ \A k \in 1..Min2(3, n) :
                    st'.recent_quality_improvements[k] = full[n - Min2(3, n) + k]]_vars
    /\ []("recent_quality_improvements" \in DOMAIN st =>
            Len(st.recent_quality_improvements) <= 3)

\* the fourth assessment of a run: the first improvement (0.8 - 0.0) has
\* been evicted
C31_Witness ==
    /\ last_call.node = "advanced_assess"
    /\ pc = "intelligent_decide"
    /\ st.iteration = 3
    /\ st.context_quality_score = 2
    /\ st.recent_quality_improvements = << 0 - 6, 6, 0 - 6 >>

\* C32: a retrieval step leaves as hint list the most recent 50 entries of
\* (the hints of the state it ran on, followed by one hint per passage of
\* this step's fused batch, in the batch's order): what is evicted is the
\* oldest; the hint list never has more than 50 entries.
C32_HintWindow ==
    /\ [][(pc = "parallel_retrieve" /\ pc' = "advanced_assess") =>
            LET new_hints == [i \in 1..Len(st'.last_batch) |->
                                [source |-> st'.last_batch[i].source,
                                 page |-> st'.last_batch[i].page,
                                 title |-> st'.last_batch[i].content]]
                full == st.evidence_hints \o new_hints
                n == Len(full)
            IN /\ Len(st'.evidence_hints) = Min2(50, n)
               /\ \A k \in 1..Min2(50, n) :
                    st'.evidence_hints[k] = full[n - Min2(50, n) + k]]_vars
    /\ []("evidence_hints" \in DOMAIN st => Len(st.evidence_hints) <= 50)

\* the third retrieval of a run, each having brought 18 passages: of the 54
\* hints the 4 oldest are gone
C32_Witness ==
    /\ last_call.node = "parallel_retrieve"
    /\ pc = "advanced_assess"
    /\ st.iteration = 2
    /\ Len(st.last_batch) = 18
    /\ Len(st.evidence_hints) = 50
    /\ st.evidence_hints[1] = [source |-> "a.pdf", page |-> 5, title |-> "x"]
    /\ st.evidence_hints[50] = [source |-> "b.pdf", page |-> 18, title |-> "x"]

VerifierSaidPass ==
    /\ last_call.oracle.kind \in {"object", "wrapped"}
    /\ "overall_grounding" \in DOMAIN last_call.oracle.obj
    /\ last_call.oracle.obj.overall_grounding = "pass"

\* C33: after a verification that completed, grounded_ok is true only if the
\* accumulator is non-empty, the answer is non-empty and the verifier's
\* oracle answered the verdict "pass"; with an empty answer or an empty
\* accumulator it is false and no oracle was called; an oracle text that is
\* not JSON gives false.
C33_GroundedOnlyOnPass ==
    (last_call.node = "advanced_verify" /\ pc \in {"END", "returned"}) =>
        /\ st.grounded_ok = TRUE =>
            /\ st.evidence_docs # << >>
            /\ st.final_answer # ""
            /\ VerifierSaidPass
        /\ (st.evidence_docs = << >> \/ st.final_answer = "") =>
            /\ st.grounded_ok = FALSE
            /\ last_call.oracle = NoCall
        /\ last_call.oracle = NoCall =>
            (st.evidence_docs = << >> \/ st.final_answer = "")
        /\ last_call.oracle = Prose => st.grounded_ok = FALSE
        /\ pc = "returned" => result.grounded_ok = st.grounded_ok

\* evidence was found but the synthesized text stripped to nothing: the
\* verifier was not asked and the trace says not grounded
C33_Witness ==
    /\ pc = "returned"
    /\ last_call = Called("advanced_verify", NoCall, << >>)
    /\ st.evidence_docs # << >>
    /\ st.final_answer = ""
    /\ result.grounded_ok = FALSE

\* the accumulator of a state, None when the key is absent
Accumulator(state) == Get(state, "evidence_docs", NoneValue)

\* C34: within a session (one call of ask() or several on one thread_id) a
\* step changes the accumulator only if it is the retrieval step, which
\* writes it once after every query of its batch has been retrieved, or the
\* analyzer, which empties it; the planner, the assessor, the controller,
\* the synthesizer, the verifier and ask()'s own steps leave it as it is.
C34_AccumulatorWriters ==
    /\ [][Accumulator(st') # Accumulator(st) =>
            \/ /\ pc = "parallel_retrieve"
               /\ pc' = "advanced_assess"
               /\ last_call'.node = "parallel_retrieve"
               /\ Len(last_call'.store) = Len(Queries(st))
               /\ IsPrefix(st.evidence_docs, st'.evidence_docs)
            \/ /\ pc = "analyze_question"
               /\ pc' = "enhanced_plan"
               /\ st'.evidence_docs = << >>]_vars
    /\ [][pc \notin {"parallel_retrieve", "analyze_question"} =>
            Accumulator(st') = Accumulator(st)]_vars

\* the analyzer of a second question on the session emptied the accumulator
\* the first question's retrievals had filled
C34_Witness ==
    /\ pc = "enhanced_plan"
    /\ last_call.node = "analyze_question"
    /\ st.question = Question2
    /\ st.evidence_docs = << >>
    /\ result.evidence_count = 2

\* the edges of the graph
EdgesFrom(node) ==
    CASE node = "analyze_question" -> {"enhanced_plan"}
      [] node = "enhanced_plan" -> {"parallel_retrieve"}
      [] node = "parallel_retrieve" -> {"advanced_assess"}
      [] node = "advanced_assess" -> {"intelligent_decide"}
      [] node = "intelligent_decide" -> {"enhanced_plan", "enhanced_synthesis"}
      [] node = "enhanced_synthesis" -> {"advanced_verify"}
      [] node = "advanced_verify" -> {"END"}

\* C35: when the streamed execution of a stream() call has ended, the same
\* question is run again on the same thread from the entry node; that second
\* execution goes through the nodes along the graph's edges, every one making
\* its calls again, and yields nothing; the state of the final event is the
\* state the second execution ended in (its cycle count, its verdict), not
\* the streamed one.
C35_StreamRunsThePipelineTwice ==
    /\ [][(pc = "END" /\ execution = 1) =>
            /\ pc' = "analyze_question"
            /\ execution' = 2
            /\ st'.question = st.question
            /\ events' = events]_vars
    /\ [][(execution = 2 /\ pc \in NodeNames) =>
            /\ last_call'.node = pc
            /\ pc' \in EdgesFrom(pc) \cup {"raised"}
            /\ events' = events]_vars
    /\ [][(execution = 2 /\ pc = "analyze_question" /\ pc' # "raised") =>
            /\ st'.iteration = 0
            /\ st'.evidence_docs = << >>]_vars
    /\ [](pc = "stream_done" =>
            /\ execution = 2
            /\ last_call.node = "advanced_verify"
            /\ events[Len(events)].state = st
            /\ st.iteration >= 1
            /\ (last_call.oracle # NoCall =>
                    st.grounded_ok = (last_call.oracle.obj.overall_grounding = "pass")))

\* the streamed execution stopped after one cycle, the second execution
\* took two: the final event shows two iterations
C35_Witness ==
    /\ pc = "stream_done"
    /\ Cardinality(DecideEvents) = 1
    /\ Len(events) = 8
    /\ events[8].state.iteration = 2
    /\ events[8].state.grounded_ok = FALSE

InUnitInterval(tenths) == 0 <= tenths /\ tenths <= 10

\* C36: in every state after an assessment, the quality score, the coverage
\* score and the evidence strength each lie in [0, 1] (here 0..10 tenths),
\* and the answer confidence of the state and of the returned trace lies in
\* [0, 1] (here 0..100 hundredths).
C36_ScoresInUnitInterval ==
    /\ "context_quality_score" \in DOMAIN st =>
            /\ InUnitInterval(st.context_quality_score)
            /\ InUnitInterval(st.coverage_score)
            /\ InUnitInterval(st.evidence_strength)
    /\ "answer_confidence" \in DOMAIN st =>
            (0 <= st.answer_confidence /\ st.answer_confidence <= 100)
    /\ pc = "returned" =>
            (0 <= result.answer_confidence /\ result.answer_confidence <= 100)

\* C37: the max_iters argument of ask() and stream() (the local mi) has no
\* effect: the graph's input is the question alone; the budget the analyzer
\* writes is min(the constructor's max_iters, max(2, int(0.8*complexity +
\* 0.5*hops))) of the profile; the controller's verdict is decided by the
\* oracle, that budget and the constructor's min_iters; so the run takes at
\* most max(min_iters, budget) cycles whatever mi is.
C37_CallBudgetHasNoEffect ==
    /\ [][pc = "idle" =>
            /\ st' = [question |-> Question]
            /\ pc' = "analyze_question"]_vars
    /\ []("max_dynamic_iters" \in DOMAIN st =>
            st.max_dynamic_iters =
                Min2(default_max_iters,
                     Max2(2, (8 * st.question_complexity + 50 * st.estimated_hops) \div 100)))
    /\ [][(pc = "intelligent_decide" /\ pc' # "raised") =>
            /\ st'.max_dynamic_iters = st.max_dynamic_iters
            /\ st'.stop =
                IF st.iteration + 1 < min_iters THEN FALSE
                ELSE IF st.iteration + 1 >= st.max_dynamic_iters THEN TRUE
                ELSE last_call'.oracle.obj.decision = "stop"]_vars
    /\ [](pc \in {"END", "returned", "stream_done"} =>
            st.iteration <= Max2(min_iters, st.max_dynamic_iters))
    /\ [](pc = "returned" => result.iterations = st.iteration)

\* ask(question, max_iters=1) on a pipeline built with max_iters=2 ran two
\* cycles
C37_Witness ==
    /\ pc = "returned"
    /\ mi = 1
    /\ default_max_iters = 2
    /\ result.iterations = 2
    /\ result.stop_reasons = << MaxReason >>

\* C38: a query whose sub-question carries a strategy tag other than
\* "semantic" and "similarity" ("keyword", an unknown tag) is retrieved as
\* "hybrid" is: the MMR retriever is called, then the similarity retriever,
\* and the query's result is the two results together, deduplicated by
\* (source, page).
C38_OtherTagsAreHybrid ==
    [][pc = "parallel_retrieve" =>
        LET queries == Queries(st)
            strategy == [i \in 1..Len(queries) |-> PlannedStrategy(st, queries[i])]
            calls == last_call'.store
        IN /\ Len(calls) = Len(queries)
           /\ \A i \in 1..Len(queries) :
                strategy[i] \notin {"semantic", "similarity"} =>
                    calls[i].sem.kind = "docs" /\ calls[i].sim.kind = "docs"
           /\ st'.last_batch =
                DedupeDocs(Concat([i \in 1..Len(queries) |->
                    CASE strategy[i] = "semantic" -> calls[i].sem.docs
                      [] strategy[i] = "similarity" -> calls[i].sim.docs
                      [] OTHER -> DedupeDocs(calls[i].sem.docs \o calls[i].sim.docs)]))]_vars

\* the "keyword" query and the "fuzzy" query each went to both retrievers,
\* the "similarity" query to one; the keyword query's similarity passage of
\* page 3 fell to the MMR passage of that page
C38_Witness ==
    /\ last_call.node = "parallel_retrieve"
    /\ pc = "advanced_assess"
    /\ st.sub_questions = PlanOtherTags
    /\ last_call.store = << [sem |-> Docs(<< P1, P3 >>), sim |-> Docs(<< P2 >>)],
                            [sem |-> Docs(<< >>), sim |-> Docs(<< P2 >>)],
                            [sem |-> Unused, sim |-> Docs(<< >>)] >>
    /\ st.last_batch = << P1, P3 >>

PlannerProposedNothing ==
    /\ last_call.node = "enhanced_plan"
    /\ last_call.oracle \in {Obj(EmptyDict), Obj([sub_questions |-> << >>])}

\* C39: when the planner's oracle returns a JSON object whose sub_questions
\* list is empty or absent, the planner writes an empty plan and an empty
\* batch and sets sub_question to the original question; the retrieval that
\* follows calls no retriever, leaves the accumulator as it was and writes
\* an empty last batch.
C39_EmptyPlanRetrievesNothing ==
    /\ [](PlannerProposedNothing =>
            /\ pc = "parallel_retrieve"
            /\ err = "none"
            /\ st.sub_questions = << >>
            /\ st.current_query_batch = << >>
            /\ st.sub_question = st.question)
    /\ [][(PlannerProposedNothing /\ pc = "parallel_retrieve") =>
            /\ pc' = "advanced_assess"
            /\ last_call' = Called("parallel_retrieve", NoCall, << >>)
            /\ st'.evidence_docs = st.evidence_docs
            /\ st'.last_batch = << >>
            /\ st'.sub_question = st.question]_vars

\* the second cycle's planner proposed nothing: no retriever was called and
\* the passages of the first cycle are still the accumulator
C39_Witness ==
    /\ last_call = Called("parallel_retrieve", NoCall, << >>)
    /\ pc = "advanced_assess"
    /\ st.iteration = 1
    /\ st.current_query_batch = << >>
    /\ st.last_batch = << >>
    /\ st.evidence_docs = << P1, P3 >>

\* C40: in every successful /policy_qa response (status 200)
\* debug_info.evidence_docs is the empty list, whatever evidence_count says:
\* evidence_count is the size of the accumulator of the run, and no passage
\* of it is in the response.
C40_ResponseCarriesNoPassages ==
    (pc = "responded" /\ result.status = 200) =>
        /\ result.debug_info.evidence_docs = << >>
        /\ result.debug_info.evidence_count = Len(st.evidence_docs)
        /\ result.answer = st.final_answer

\* two passages were accumulated and counted; the response lists none
C40_Witness ==
    /\ pc = "responded"
    /\ result.status = 200
    /\ st.evidence_docs = << P1, P3 >>
    /\ result.debug_info.evidence_count = 2
    /\ result.debug_info.evidence_docs = << >>
====
